---- MODULE Spec2Model ----
(***************************************************************************)
(* State-machine model of praisonai_testgen: the deterministic pipeline    *)
(* TestGen.generate / TestGen._generate_direct (testgen.py) and the tools  *)
(* it calls (tools.py): parse_python_ast, generate_test_code and           *)
(* run_pytest_isolated, which is also callable on its own as a tool.       *)
(* Further specifications over the same variables: the analyzer and the    *)
(* renderer used as tools (ToolSpec), two concurrent calls of              *)
(* TestGen._write_tests (WritersSpec), TestGen.update over a list of       *)
(* changed files (BatchSpec), the tools that rely on an external           *)
(* collaborator, generate_test_code_llm and validate_test_quality          *)
(* (CollaboratorSpec), and generate called with any target string,         *)
(* directly or by the command `testgen generate` of cli.py (CliSpec).      *)
(*                                                                         *)
(* Conventions.  An Optional[T] value is a sequence of length 0 (None) or  *)
(* 1.  Identifiers and paths that the code inspects character by character *)
(* (startswith, '::' in target, Path.stem) are sequences of one-character  *)
(* strings; texts the code only compares whole are TLA+ strings.  A Python *)
(* dict is a sequence of [k, v] records in insertion order.                *)
(*                                                                         *)
(* Environment assumptions: the output directory is writable (mkdir/open   *)
(* of _write_tests do not raise), the temporary directory can be created   *)
(* and written, and its removal succeeds; update's call of git returns a   *)
(* list of paths.                                                          *)
(***************************************************************************)
EXTENDS Integers, Sequences, FiniteSets, TLC

VARIABLES
    pc,             \* position of the invocation
    trace,          \* history: the positions entered, in order
    file_path,      \* generate: path part of the target
    function_name,  \* generate: Optional unit name
    output_dir,     \* generate: Optional output directory
    parsed,         \* _generate_direct: Optional result of parse_python_ast
    functions,      \* _generate_direct: signatures kept by the filter
    idx,            \* _generate_direct: position of the rendering loop
    tests,          \* _generate_direct: rendered tests
    validation,     \* _generate_direct: Optional verdict of the sandbox
    result,         \* Optional GenerationResult returned by generate
    caller,         \* who called run_pytest_isolated: "pipeline" or "tool"
    spc,            \* position inside run_pytest_isolated
    test_code,      \* run_pytest_isolated: its argument
    tmpdir,         \* run_pytest_isolated: Optional temporary directory
    proc,           \* run_pytest_isolated: Optional CompletedProcess
    exc,            \* run_pytest_isolated: Optional pending exception
    child,          \* history: what the spawned runner really produced
    tool_ret,       \* Optional value returned to a direct tool caller
    tmpfs,          \* temporary directories that exist, each with its files
    fs,             \* output files that exist: sequence of [path, content]
    dirs,           \* output directories that exist
    n_render,       \* history: calls of generate_test_code
    n_sandbox,      \* history: calls of run_pytest_isolated
    ast_tree,       \* history: Optional syntax tree of the analyzed file
    upc,            \* update: position of the batch
    changed_files,  \* update: the paths git reports as changed
    all_tests,      \* update: tests collected so far
    errors,         \* update: errors collected so far
    update_result,  \* Optional GenerationResult returned by update
    processed,      \* history: per file the loop of update has handled,
                    \* whether it existed and what generate returned
    writers,        \* concurrent calls of _write_tests, one record each
    ext,            \* call of a tool that relies on an external collaborator
    arg_target,     \* history: Optional target generate was called with
    cli_args        \* Optional command line of `testgen generate`

vars == <<pc, trace, file_path, function_name, output_dir, parsed, functions,
          idx, tests, validation, result, caller, spc, test_code, tmpdir,
          proc, exc, child, tool_ret, tmpfs, fs, dirs, n_render, n_sandbox,
          ast_tree, upc, changed_files, all_tests, errors, update_result,
          processed, writers, ext, arg_target, cli_args>>

pipeVars == <<file_path, function_name, output_dir, parsed, functions, idx,
              tests, validation, result, ast_tree>>
sandVars == <<caller, spc, test_code, tmpdir, proc, exc, child, tool_ret,
              tmpfs, n_sandbox>>
batchVars == <<upc, changed_files, all_tests, errors, update_result, processed>>
callVars == <<arg_target, cli_args>>

----------------------------------------------------------------------------
\* Bounds of the model.

\* Most parameters of a function handed to the analyzer as a tool.
MaxArgs == 2
\* Longest list of changed files handed to update.
MaxBatch == 2
\* Longest response of the language model, in tokens.
MaxResponse == 3
\* Longest target string handed to generate.
MaxTarget == 5

\* Longest module body (number of top-level statements) of an analyzed file.
MaxBody == 2
\* Longest output stream (in bytes) of the spawned runner.
MaxOut == 2

----------------------------------------------------------------------------
\* Generic helpers.

None == <<>>
Some(x) == <<x>>
IsNone(o) == Len(o) = 0
IsSome(o) == Len(o) = 1
Get(o) == o[1]

Range(s) == {s[i] : i \in 1..Len(s)}

SeqsUpTo(S, n) == UNION {[1..k -> S] : k \in 0..n}

\* str.startswith(prefix) on character sequences.
StartsWith(s, prefix) ==
    /\ Len(s) >= Len(prefix)
    /\ \A i \in 1..Len(prefix) : s[i] = prefix[i]

RECURSIVE Concat(_)
Concat(ss) == IF ss = <<>> THEN <<>> ELSE Head(ss) \o Concat(Tail(ss))

\* sep.join(items), items and sep being sequences of pieces.
RECURSIVE Join(_, _)
Join(items, sep) ==
    IF items = <<>> THEN <<>>
    ELSE IF Len(items) = 1 THEN Head(items)
    ELSE Head(items) \o sep \o Join(Tail(items), sep)

----------------------------------------------------------------------------
\* The syntax tree of an analyzed file (what ast.parse returns), reduced to
\* the node kinds and fields parse_python_ast reads.

Arg(a, ann) == [arg |-> a, annotation |-> ann]

FunctionDef(name, posonlyargs, args, defaults, body) ==
    [type |-> "FunctionDef", name |-> name, posonlyargs |-> posonlyargs,
     args |-> args, defaults |-> defaults, body |-> body]

ClassDef(name, body) ==
    [type |-> "ClassDef", name |-> name, posonlyargs |-> <<>>,
     args |-> <<>>, defaults |-> <<>>, body |-> body]

Import(name) ==
    [type |-> "Import", name |-> name, posonlyargs |-> <<>>,
     args |-> <<>>, defaults |-> <<>>, body |-> <<>>]

Module(body) ==
    [type |-> "Module", name |-> <<>>, posonlyargs |-> <<>>,
     args |-> <<>>, defaults |-> <<>>, body |-> body]

\* ast.walk: breadth-first, a node before its children, children in order.
RECURSIVE Walk(_)
Walk(todo) ==
    IF todo = <<>> THEN <<>>
    ELSE <<Head(todo)>> \o Walk(Tail(todo) \o Head(todo).body)

\* seq[-n:] of Python for n >= 1: the last n elements, or all if fewer.
LastN(s, n) == IF n >= Len(s) THEN s ELSE SubSeq(s, Len(s) - n + 1, Len(s))

\* zip(a, b) as a sequence of pairs, cut to the shorter one.
Zip(a, b) ==
    [i \in 1..(IF Len(a) < Len(b) THEN Len(a) ELSE Len(b)) |-> <<a[i], b[i]>>]

NotSelf(a) == a.arg # "self"
HasAnnotation(a) == a.arg # "self" /\ IsSome(a.annotation)
PairNotSelf(p) == p[1].arg # "self"

\* Mutant of IsPrivate: only a double underscore marks a name private.
IsPrivateDunder(name) == StartsWith(name, <<"_", "_">>)

\* node.name.startswith("_")
IsPrivate(name) == StartsWith(name, <<"_">>)

MapSeq(s, F(_)) == [i \in 1..Len(s) |-> F(s[i])]

\* ast.unparse of an expression, given by the text the author wrote: string
\* literals come out in single quotes, numbers in canonical form, redundant
\* parentheses are dropped; a name, a subscript or a keyword constant comes
\* out as written.
Unparse(text) ==
    CASE text = "\"World\"" -> "'World'"
      [] text = "\"\"" -> "''"
      [] text = "1_000" -> "1000"
      [] text = "(int)" -> "int"
      [] OTHER -> text

ArgName(a) == a.arg
ArgType(a) == [k |-> a.arg, v |-> Unparse(Get(a.annotation))]
DefaultEntry(p) == [k |-> p[1].arg, v |-> Unparse(p[2])]

\* The func_info dict built for one ast.FunctionDef node.
FuncInfo(node) ==
    [name |-> node.name,
     args |-> MapSeq(SelectSeq(node.args, NotSelf), ArgName),
     is_private |-> IsPrivate(node.name),
     arg_types |-> MapSeq(SelectSeq(node.args, HasAnnotation), ArgType),
     defaults |->
        LET args_with_defaults ==
                IF node.defaults # <<>>
                THEN LastN(node.args, Len(node.defaults)) ELSE <<>>
        IN MapSeq(SelectSeq(Zip(args_with_defaults, node.defaults), PairNotSelf),
                  DefaultEntry)]

IsFunctionDef(node) == node.type = "FunctionDef"
IsClassDef(node) == node.type = "ClassDef"

MethodInfo(item) ==
    [name |-> item.name,
     args |-> MapSeq(SelectSeq(item.args, NotSelf), ArgName),
     is_private |-> IsPrivate(item.name)]

\* The class_info dict built for one ast.ClassDef node: a shallow summary.
ClassInfo(node) ==
    [name |-> node.name,
     methods |-> MapSeq(SelectSeq(node.body, IsFunctionDef), MethodInfo),
     is_private |-> IsPrivate(node.name)]

\* parse_python_ast once the file is read and parsed into `tree`.
parse_python_ast(tree) ==
    LET nodes == Walk(<<tree>>)
    IN [functions |-> MapSeq(SelectSeq(nodes, IsFunctionDef), FuncInfo),
        classes |-> MapSeq(SelectSeq(nodes, IsClassDef), ClassInfo)]

----------------------------------------------------------------------------
\* generate_test_code: the rendered test, kept as the structure of its text.

\* dict.get(key) on a dict kept as a sequence of [k, v] entries.
DictGet(d, key) ==
    LET hits == SelectSeq(d, LAMBDA e : e.k = key)
    IN IF hits = <<>> THEN None ELSE Some(hits[Len(hits)].v)

\* Mutant of SampleValue: the bool branch is missing from the chain.
SampleValueWithoutBool(arg, arg_types, defaults) ==
    LET t == DictGet(arg_types, arg)
        arg_type == IF IsSome(t) THEN Get(t) ELSE ""
        default == DictGet(defaults, arg)
    IN IF IsSome(default) /\ Get(default) # "" THEN Get(default)
       ELSE IF arg_type = "int" THEN "1"
       ELSE IF arg_type = "float" THEN "1.0"
       ELSE IF arg_type = "str" THEN "\"test\""
       ELSE IF arg_type = "list" THEN "[]"
       ELSE IF arg_type = "dict" THEN "{}"
       ELSE "None"

\* The literal chosen for one argument (the if/elif chain on default and type).
SampleValue(arg, arg_types, defaults) ==
    LET t == DictGet(arg_types, arg)
        arg_type == IF IsSome(t) THEN Get(t) ELSE ""
        default == DictGet(defaults, arg)
    IN IF IsSome(default) /\ Get(default) # "" THEN Get(default)
       ELSE IF arg_type = "int" THEN "1"
       ELSE IF arg_type = "float" THEN "1.0"
       ELSE IF arg_type = "str" THEN "\"test\""
       ELSE IF arg_type = "bool" THEN "True"
       ELSE IF arg_type = "list" THEN "[]"
       ELSE IF arg_type = "dict" THEN "{}"
       ELSE "None"

TestPrefix == <<"t", "e", "s", "t", "_">>
BasicSuffix == <<"_", "b", "a", "s", "i", "c">>
EdgeSuffix == <<"_", "e", "d", "g", "e", "_", "c", "a", "s", "e", "s">>

\* The comment line the edge-case test gets for one typed argument, if any.
EdgeComment(e) ==
    IF e.v = "int" THEN <<[arg |-> e.k, text |-> "test with 0, negative, large values"]>>
    ELSE IF e.v = "str" THEN <<[arg |-> e.k, text |-> "test with empty string, whitespace"]>>
    ELSE IF e.v = "list" THEN <<[arg |-> e.k, text |-> "test with empty list, single item"]>>
    ELSE <<>>

\* Mutant of CallArgs: the call passes the arguments in reverse order.
CallArgsReversed(args) == [i \in 1..Len(args) |-> args[Len(args) + 1 - i]]

\* call_args = ", ".join(args): the names, in the order of the signature.
CallArgs(args) == args

generate_test_code(function_info) ==
    LET name == function_info.name
        args == function_info.args
        arg_types == function_info.arg_types
        defaults == function_info.defaults
    IN [name |-> name,
        basic |->
            [fname |-> TestPrefix \o name \o BasicSuffix,
             \* an empty arrange block is rendered as "pass  # No arguments"
             arrange |-> [i \in 1..Len(args) |->
                            [lhs |-> args[i],
                             rhs |-> SampleValue(args[i], arg_types, defaults)]],
             callee |-> name,
             call_args |-> CallArgs(args),
             assertion |-> "assert result is not None"],
        edge |->
            IF arg_types # <<>>
            THEN Some([fname |-> TestPrefix \o name \o EdgeSuffix,
                       comments |-> Concat(MapSeq(arg_types, EdgeComment))])
            ELSE None]

\* Pieces of a text: a literal, an interpolated name, or a rendered test.
Lit(s) == [k |-> "lit", s |-> s, n |-> <<>>, t |-> None]
NamePiece(n) == [k |-> "name", s |-> "", n |-> n, t |-> None]
TestPiece(t) == [k |-> "test", s |-> "", n |-> <<>>, t |-> Some(t)]

\* The text of a rendered test, line by line: the template of
\* generate_test_code with its fields filled in.  A line is its indentation
\* and its pieces; a line of spaces only has no piece.
Line(indent, pieces) == [indent |-> indent, pieces |-> pieces]
BlankLine == Line(0, <<>>)
CommentLine(pieces) == Line(4, <<Lit("# ")>> \o pieces)
DocString(before, name, after) ==
    Line(4, <<Lit("\"\"\""), Lit(before), NamePiece(name), Lit(after), Lit("\"\"\"")>>)
DefLine(fname) == Line(0, <<Lit("def "), NamePiece(fname), Lit("("), Lit(")"), Lit(":")>>)

\* Mutant of ArrangeLines: the assignments are joined by "\n" alone, so
\* only the first one is indented.
ArrangeLinesJoinedUnindented(arrange) ==
    IF arrange = <<>>
    THEN <<Line(4, <<Lit("pass"), Lit("  "), Lit("# "), Lit("No arguments")>>)>>
    ELSE [i \in 1..Len(arrange) |->
            Line(IF i = 1 THEN 4 ELSE 0,
                 <<Lit(arrange[i].lhs), Lit(" = "), Lit(arrange[i].rhs)>>)]

\* {arg_assignments if arg_assignments else "pass  # No arguments"}, the
\* assignments joined by "\n    ".
ArrangeLines(arrange) ==
    IF arrange = <<>>
    THEN <<Line(4, <<Lit("pass"), Lit("  "), Lit("# "), Lit("No arguments")>>)>>
    ELSE [i \in 1..Len(arrange) |->
            Line(4, <<Lit(arrange[i].lhs), Lit(" = "), Lit(arrange[i].rhs)>>)]

\* def test_{name}_basic(): ... up to the assertion.
BasicTestLines(name, b) ==
    <<DefLine(b.fname),
      DocString("Test ", name, " with basic inputs."),
      CommentLine(<<Lit("Arrange")>>)>>
    \o ArrangeLines(b.arrange)
    \o <<Line(4, <<>>),
         CommentLine(<<Lit("Act")>>),
         Line(4, <<Lit("result"), Lit(" = "), NamePiece(b.callee), Lit("(")>>
                    \o Join([i \in 1..Len(b.call_args) |-> <<Lit(b.call_args[i])>>],
                            <<Lit(", ")>>)
                    \o <<Lit(")")>>),
         Line(4, <<>>),
         CommentLine(<<Lit("Assert")>>),
         Line(4, <<Lit("assert "), Lit("result is not None"), Lit("  "), Lit("# "),
                   Lit("Basic assertion - replace with specific checks")>>)>>

\* The edge-case test: two empty lines, def test_{name}_edge_cases(): with
\* its comments, and `assert True`.
EdgeTestLines(name, e) ==
    <<BlankLine, BlankLine,
      DefLine(e.fname),
      DocString("Test ", name, " edge cases."),
      CommentLine(<<Lit("Test with edge values based on types")>>)>>
    \o [i \in 1..Len(e.comments) |->
            CommentLine(<<Lit(e.comments[i].arg), Lit(": "), Lit(e.comments[i].text)>>)]
    \o <<Line(4, <<Lit("assert "), Lit("True"), Lit("  "), Lit("# "),
                   Lit("TODO: implement edge case tests")>>)>>

\* The whole text generate_test_code returns.
TestLines(t) ==
    BasicTestLines(t.name, t.basic)
        \o (IF IsSome(t.edge) THEN EdgeTestLines(t.name, Get(t.edge)) ELSE <<>>)

\* The tests a text holds, in order.
TestsOf(text) ==
    MapSeq(SelectSeq(text, LAMBDA p : p.k = "test"), LAMBDA p : Get(p.t))

\* "import pytest\n\n" + "\n\n".join(tests)
Combined(ts) ==
    <<Lit("import pytest\n\n")>>
        \o Join(MapSeq(ts, LAMBDA t : <<TestPiece(t)>>), <<Lit("\n\n")>>)

----------------------------------------------------------------------------
\* TestGen._parse_target and the output path of TestGen._write_tests.

\* Positions i with s[i..i+1] = "::".
SepAt(s) == {i \in 1..(Len(s) - 1) : s[i] = ":" /\ s[i + 1] = ":"}

Min(S) == CHOOSE x \in S : \A y \in S : x <= y
Max(S) == CHOOSE x \in S : \A y \in S : x >= y

\* Mutant of ParseTarget: the split is at the last "::" (rsplit).
ParseTargetAtLast(target) ==
    IF SepAt(target) # {}
    THEN LET i == Max(SepAt(target))
         IN <<SubSeq(target, 1, i - 1), Some(SubSeq(target, i + 2, Len(target)))>>
    ELSE <<target, None>>

\* _parse_target: <<file_path, Optional function_name>>.
ParseTarget(target) ==
    IF SepAt(target) # {}
    THEN LET i == Min(SepAt(target))
         IN <<SubSeq(target, 1, i - 1), Some(SubSeq(target, i + 2, Len(target)))>>
    ELSE <<target, None>>

\* The final component of a path.
Basename(path) ==
    LET slashes == {i \in 1..Len(path) : path[i] = "/"}
    IN IF slashes = {} THEN path
       ELSE SubSeq(path, Max(slashes) + 1, Len(path))

\* pathlib's PurePath.stem: the final component without its last suffix.
Stem(path) ==
    LET name == Basename(path)
        dots == {i \in 1..Len(name) : name[i] = "."}
    IN IF dots # {} /\ Max(dots) > 1 /\ Max(dots) < Len(name)
       THEN SubSeq(name, 1, Max(dots) - 1)
       ELSE name

\* TestGenConfig.test_dir
DefaultTestDir == <<"t", "e", "s", "t", "s">>

\* output_dir or self.config.test_dir
EffectiveOutputDir(out) ==
    IF IsSome(out) /\ Get(out) # <<>> THEN Get(out) ELSE DefaultTestDir

\* Path(output_dir) / f"test_{source_name}.py"
TestFilePath(source_file, out) ==
    [dir |-> EffectiveOutputDir(out),
     file |-> TestPrefix \o Stem(source_file) \o <<".", "p", "y">>]

\* What _write_tests writes into the file it has opened with mode "w".
FileContent(ts, source_file) ==
    <<Lit("import pytest\n"), Lit("from "), NamePiece(Stem(source_file)),
      Lit(" import *\n\n")>>
        \o Concat(MapSeq(ts, LAMBDA t : <<TestPiece(t), Lit("\n\n")>>))

\* The file system after open(path, "w") ... close: the file is replaced.
WriteFile(files, path, content) ==
    SelectSeq(files, LAMBDA f : f.path # path)
        \o <<[path |-> path, content |-> content]>>

ReadFile(files, path) ==
    LET hits == SelectSeq(files, LAMBDA f : f.path = path)
    IN IF hits = <<>> THEN None ELSE Some(hits[1].content)

\* GenerationResult(success, tests, test_file, coverage, validation_score, errors)
GenerationResult(success, ts, test_file, errs) ==
    [success |-> success, tests |-> ts, test_file |-> test_file,
     coverage |-> None, validation_score |-> None, errors |-> errs]

\* An error message: its fixed text and the value interpolated into it.
Msg(text, arg) == [text |-> text, arg |-> arg]

NoUnitsMsg == Msg("No testable functions or classes found", <<>>)
NotFoundMsg(name) == Msg("Function '{function_name}' not found", name)

----------------------------------------------------------------------------
\* run_pytest_isolated: the child process and the verdict.

\* Bytes a runner may write: a printable one, CR, LF, and one that is not
\* valid in the locale's encoding.
Bytes == {"a", "CR", "LF", "xFF"}

Streams == SeqsUpTo(Bytes, MaxOut)

\* Exit statuses of the runner: success, test failures, usage error, killed.
ExitCodes == {0, 1, 2, -9}

\* bytes.decode(encoding) with errors="strict" succeeds.
Decodable(bytes) == "xFF" \notin Range(bytes)

\* subprocess's text mode: data.replace("\r\n", "\n").replace("\r", "\n").
RECURSIVE TranslateNewlines(_)
TranslateNewlines(s) ==
    IF s = <<>> THEN <<>>
    ELSE IF Head(s) = "CR"
         THEN IF Len(s) >= 2 /\ s[2] = "LF"
              THEN <<"LF">> \o TranslateNewlines(Tail(Tail(s)))
              ELSE <<"LF">> \o TranslateNewlines(Tail(s))
         ELSE <<Head(s)>> \o TranslateNewlines(Tail(s))

\* The CompletedProcess of subprocess.run(..., capture_output=True, text=True)
\* for a child that exited with `returncode` having written `out` and `err`.
CompletedProcess(returncode, out, err) ==
    [returncode |-> returncode,
     stdout |-> TranslateNewlines(out),
     stderr |-> TranslateNewlines(err)]

\* Mutant of Verdict: only exit status 1 counts as a failure.
VerdictOnlyOneFails(p) ==
    [passed |-> p.returncode # 1,
     exit_code |-> p.returncode,
     stdout |-> p.stdout,
     stderr |-> p.stderr]

\* The dict run_pytest_isolated returns.
Verdict(p) ==
    [passed |-> p.returncode = 0,
     exit_code |-> p.returncode,
     stdout |-> p.stdout,
     stderr |-> p.stderr]

Exception(type, msg) == [type |-> type, msg |-> msg]

\* Names tempfile may give a new temporary directory.
TmpNames == {"tmpA", "tmpB"}

\* Mutant of TemporaryDirectoryExit: the cleanup sits after the block instead
\* of in a finally clause, so a pending exception skips it.
TemporaryDirectoryExitLeaks(tfs, d, pending) ==
    IF IsSome(pending) THEN tfs ELSE {t \in tfs : t.dir # d}

\* TemporaryDirectory.__exit__: the directory and its files are removed,
\* whether or not an exception is leaving the with block.
TemporaryDirectoryExit(tfs, d, pending) == {t \in tfs : t.dir # d}

----------------------------------------------------------------------------
\* The inputs the model draws from.

NameF == <<"f">>
NameG == <<"g">>
NameH == <<"_", "h">>
NameC == <<"C">>

SourcePath == <<"d", "/", "m", ".", "p", "y">>

\* Unit names a target may carry after "::" (the empty one is "m.py::").
UnitNames == {NameF, NameG, NameH, <<>>}

Targets == {SourcePath} \cup {SourcePath \o <<":", ":">> \o u : u \in UnitNames}

OutputDirs == {None, Some(<<"o">>)}

\* Top-level statements of an analyzed file.
Statements ==
    { FunctionDef(NameF, <<>>, <<>>, <<>>, <<>>),
      FunctionDef(NameF, <<>>, <<Arg("a", Some("int"))>>, <<>>, <<>>),
      FunctionDef(NameH, <<>>, <<>>, <<>>, <<>>),
      ClassDef(NameC, <<>>),
      ClassDef(NameC, <<FunctionDef(NameF, <<>>, <<Arg("self", None)>>, <<>>, <<>>)>>),
      ClassDef(NameC, <<FunctionDef(NameH, <<>>, <<Arg("self", None)>>, <<>>, <<>>)>>),
      Import(<<"o", "s">>) }

\* What open(file_path) and ast.parse find: no readable file, text that is
\* not valid Python, or a module.
FileStates ==
    {[kind |-> "unreadable", tree |-> Module(<<>>)],
     [kind |-> "syntax_error", tree |-> Module(<<>>)]}
        \cup {[kind |-> "ok", tree |-> Module(b)] : b \in SeqsUpTo(Statements, MaxBody)}

\* Annotations and defaults as their authors wrote them.
AnnotationTexts ==
    {"int", "float", "str", "bool", "list", "dict", "List[int]", "(int)"}
DefaultTexts == {"None", "0", "False", "\"\"", "\"World\"", "1_000"}

\* The i-th parameter of a function is named after its position.
ParamNames == <<"a", "b", "c", "d">>

\* What a parameter declares besides its name: an annotation, or a default
\* with or without an annotation.
ParamSpecs ==
    {[annotation |-> x, default |-> None] :
        x \in {None} \cup {Some(t) : t \in AnnotationTexts}}
    \cup {[annotation |-> x, default |-> Some(d)] :
        x \in {None, Some("str")}, d \in DefaultTexts}

\* Parameter lists Python accepts: no parameter without a default follows
\* one with a default.
Signatures ==
    {ps \in SeqsUpTo(ParamSpecs, MaxArgs) :
        \A i \in 1..Len(ps), j \in 1..Len(ps) :
            (i < j /\ IsSome(ps[i].default)) => IsSome(ps[j].default)}

\* `def name(p1, ..., pk, /, pk+1, ..., pn): ...` as ast.parse gives it: the
\* defaults list holds the defaults of the last parameters, whichever side of
\* the slash they are on.
FunctionDefOf(name, ps, k) ==
    LET all == [i \in 1..Len(ps) |-> Arg(ParamNames[i], ps[i].annotation)]
        withDefault == SelectSeq(ps, LAMBDA q : IsSome(q.default))
    IN FunctionDef(name, SubSeq(all, 1, k), SubSeq(all, k + 1, Len(all)),
                   [i \in 1..Len(withDefault) |-> Get(withDefault[i].default)],
                   <<>>)

\* Files handed to parse_python_ast when it is used as a tool: one function
\* with any accepted parameter list, or one statement of the kinds above, or
\* a function nested in another.
ToolTrees ==
    {Module(<<FunctionDefOf(NameF, pk[1], pk[2])>>) :
        pk \in {qk \in Signatures \X (0..MaxArgs) : qk[2] <= Len(qk[1])}}
    \cup {Module(<<st>>) : st \in Statements}
    \cup {Module(<<FunctionDef(NameG, <<>>, <<>>, <<>>,
                    <<FunctionDef(NameF, <<>>, <<Arg("a", None)>>, <<>>, <<>>)>>)>>)}

\* Test sources handed to run_pytest_isolated when it is used as a tool.
ToolCodes ==
    {<<Lit("def test_simple():\n    assert 1 + 1 == 2\n")>>,
     <<Lit("def test_failing():\n    assert 1 == 2\n")>>}

\* Output streams of the runner when the pipeline spawns it: the pipeline
\* reads nothing of them, so one decodable and one undecodable stream do.
PipelineStreams == {<<"a">>, <<"xFF">>}

----------------------------------------------------------------------------
\* The state machine.

\* No invocation of generate or of a tool has started.
Idle ==
    /\ pc = "Idle"
    /\ trace = <<>>
    /\ file_path = <<>>
    /\ function_name = None
    /\ output_dir = None
    /\ parsed = None
    /\ functions = <<>>
    /\ idx = 0
    /\ tests = <<>>
    /\ validation = None
    /\ result = None
    /\ caller = "none"
    /\ spc = "none"
    /\ test_code = <<>>
    /\ tmpdir = None
    /\ proc = None
    /\ exc = None
    /\ child = None
    /\ tool_ret = None
    /\ tmpfs = {}
    /\ fs = <<>>
    /\ dirs = {}
    /\ n_render = 0
    /\ n_sandbox = 0
    /\ ast_tree = None
    /\ arg_target = None
    /\ cli_args = None

\* update has not been called.
NoBatch ==
    /\ upc = "none"
    /\ changed_files = <<>>
    /\ all_tests = <<>>
    /\ errors = <<>>
    /\ update_result = None
    /\ processed = <<>>

\* No tool that relies on an external collaborator has been called.
NoCall ==
    [fn |-> "none", at |-> "none", function_info |-> None, code |-> <<>>,
     response |-> None, ret |-> None, raised |-> None, faults |-> <<>>]

Init == Idle /\ NoBatch /\ writers = <<>> /\ ext = NoCall

Goto(step) ==
    /\ pc' = step
    /\ trace' = Append(trace, step)

\* return GenerationResult(success=False, errors=[msg])
Fail(msg) ==
    /\ result' = Some(GenerationResult(FALSE, <<>>, None, <<msg>>))
    /\ Goto("Failed")

\* generate(target, output_dir) with use_agents=False, up to the call of
\* _generate_direct.
Generate(target, out) ==
    /\ pc = "Idle"
    /\ file_path' = ParseTarget(target)[1]
    /\ function_name' = ParseTarget(target)[2]
    /\ output_dir' = out
    /\ Goto("Parsing")
    /\ UNCHANGED <<parsed, functions, idx, tests, validation, result, ast_tree>>
    /\ UNCHANGED <<sandVars, fs, dirs, n_render>>
    /\ UNCHANGED <<batchVars, writers, ext>>
    /\ arg_target' = Some(target)

\* Mutant of NoTestableUnits: the second `not` is dropped.
NoTestableUnitsNotDropped(p) == p.functions = <<>> /\ p.classes # <<>>

\* if not parsed["functions"] and not parsed["classes"]
NoTestableUnits(p) == p.functions = <<>> /\ p.classes = <<>>

\* Step 1: parse_python_ast(file_path) and the check for an empty module.
Parse(file) ==
    /\ pc = "Parsing"
    /\ IF file.kind = "unreadable"
       THEN /\ Fail(Msg("[Errno 2] No such file or directory: '{file_path}'", file_path))
            /\ UNCHANGED <<parsed, ast_tree>>
       ELSE IF file.kind = "syntax_error"
       THEN /\ Fail(Msg("invalid syntax", <<>>))
            /\ UNCHANGED <<parsed, ast_tree>>
       ELSE /\ parsed' = Some(parse_python_ast(file.tree))
            /\ ast_tree' = Some(file.tree)
            /\ IF NoTestableUnits(Get(parsed'))
               THEN Fail(NoUnitsMsg)
               ELSE Goto("Filtering") /\ UNCHANGED result
    /\ UNCHANGED <<file_path, function_name, output_dir, functions, idx, tests,
                   validation>>
    /\ UNCHANGED <<sandVars, fs, dirs, n_render>>
    /\ UNCHANGED <<batchVars, writers, ext, callVars>>

\* `if function_name:` - None and the empty string both count as no request.
Requested(name) == IsSome(name) /\ Get(name) # <<>>

\* Mutant of FilterFunctions: the comparison is inverted.
FilterFunctionsInverted(fns, name) == SelectSeq(fns, LAMBDA f : f.name # name)

\* [f for f in functions if f["name"] == function_name]
FilterFunctions(fns, name) == SelectSeq(fns, LAMBDA f : f.name = name)

\* Step 2: filter to the requested function.
Filter ==
    /\ pc = "Filtering"
    /\ functions' = IF Requested(function_name)
                    THEN FilterFunctions(Get(parsed).functions, Get(function_name))
                    ELSE Get(parsed).functions
    /\ IF Requested(function_name) /\ functions' = <<>>
       THEN Fail(NotFoundMsg(Get(function_name))) /\ UNCHANGED <<idx, tests>>
       ELSE /\ Goto("Rendering")
            /\ idx' = 1
            /\ tests' = <<>>
            /\ UNCHANGED result
    /\ UNCHANGED <<file_path, function_name, output_dir, parsed, validation, ast_tree>>
    /\ UNCHANGED <<sandVars, fs, dirs, n_render>>
    /\ UNCHANGED <<batchVars, writers, ext, callVars>>

\* Mutant of RenderNext: the validation sits inside the loop body, so the
\* pipeline goes to Validating as soon as one test is rendered.
RenderNextValidatesInLoop ==
    /\ pc = "Rendering"
    /\ idx <= Len(functions)
    /\ IF functions[idx].is_private
       THEN UNCHANGED <<tests, n_render, pc, trace>>
       ELSE /\ tests' = Append(tests, generate_test_code(functions[idx]))
            /\ n_render' = n_render + 1
            /\ Goto("Validating")
    /\ idx' = idx + 1
    /\ UNCHANGED <<file_path, function_name, output_dir, parsed,
                   functions, validation, result, ast_tree>>
    /\ UNCHANGED <<sandVars, fs, dirs>>
    /\ UNCHANGED <<batchVars, writers, ext, callVars>>

\* Step 3, one iteration of the loop over the functions.
RenderNext ==
    /\ pc = "Rendering"
    /\ idx <= Len(functions)
    /\ IF functions[idx].is_private
       THEN UNCHANGED <<tests, n_render>>
       ELSE /\ tests' = Append(tests, generate_test_code(functions[idx]))
            /\ n_render' = n_render + 1
    /\ idx' = idx + 1
    /\ UNCHANGED <<pc, trace, file_path, function_name, output_dir, parsed,
                   functions, validation, result, ast_tree>>
    /\ UNCHANGED <<sandVars, fs, dirs>>
    /\ UNCHANGED <<batchVars, writers, ext, callVars>>

\* Mutant of AfterRendering: the `if tests` guard of step 4 is missing.
AfterRenderingAlwaysValidates(ts) == "Validating"

\* `if tests:` - step 4 is skipped when nothing was rendered.
AfterRendering(ts) == IF ts # <<>> THEN "Validating" ELSE "Writing"

\* Step 3, the loop is over; step 4 runs only `if tests`.
RenderEnd ==
    /\ pc = "Rendering"
    /\ idx > Len(functions)
    /\ Goto(AfterRendering(tests))
    /\ UNCHANGED pipeVars
    /\ UNCHANGED <<sandVars, fs, dirs, n_render>>
    /\ UNCHANGED <<batchVars, writers, ext, callVars>>

\* run_pytest_isolated(code) is entered: the with statement creates the
\* temporary directory.
Enter(who, code) ==
    /\ spc = "none"
    /\ caller' = who
    /\ test_code' = code
    /\ \E d \in TmpNames \ {t.dir : t \in tmpfs} :
        /\ tmpdir' = Some(d)
        /\ tmpfs' = tmpfs \cup {[dir |-> d, files |-> {}]}
    /\ spc' = "entered"
    /\ n_sandbox' = n_sandbox + 1
    /\ proc' = None
    /\ exc' = None
    /\ child' = None
    /\ UNCHANGED tool_ret

\* Step 4: combined = ...; validation = run_pytest_isolated(combined)
ValidateCall ==
    /\ pc = "Validating"
    /\ Enter("pipeline", Combined(tests))
    /\ UNCHANGED <<pc, trace, pipeVars, fs, dirs, n_render>>
    /\ UNCHANGED <<batchVars, writers, ext, callVars>>

\* run_pytest_isolated called directly as a tool.
ToolCall(code) ==
    /\ pc = "Idle"
    /\ Enter("tool", code)
    /\ Goto("Tool")
    /\ UNCHANGED <<pipeVars, fs, dirs, n_render>>
    /\ UNCHANGED <<batchVars, writers, ext, callVars>>

\* test_file.write_text(test_code)
SandboxWriteText ==
    /\ spc = "entered"
    /\ tmpfs' = {IF t.dir = Get(tmpdir)
                 THEN [t EXCEPT !.files = t.files \cup {"test_temp.py"}]
                 ELSE t : t \in tmpfs}
    /\ spc' = "written"
    /\ UNCHANGED <<caller, test_code, tmpdir, proc, exc, child, tool_ret, n_sandbox>>
    /\ UNCHANGED <<pc, trace, pipeVars, fs, dirs, n_render>>
    /\ UNCHANGED <<batchVars, writers, ext, callVars>>

\* subprocess.run cannot start the runner (no pytest executable): it raises.
SubprocessRunFails ==
    /\ spc = "written"
    /\ exc' = Some(Exception("FileNotFoundError",
                    Msg("[Errno 2] No such file or directory: 'pytest'", <<>>)))
    /\ spc' = "raising"
    /\ UNCHANGED <<caller, test_code, tmpdir, proc, child, tool_ret, tmpfs, n_sandbox>>
    /\ UNCHANGED <<pc, trace, pipeVars, fs, dirs, n_render>>
    /\ UNCHANGED <<batchVars, writers, ext, callVars>>

\* subprocess.run starts the runner, which exits with some status having
\* written some output; text=True decodes it, or raises if it cannot.
SubprocessRun(streams) ==
    /\ spc = "written"
    /\ \E rc \in ExitCodes, out \in streams, err \in streams :
        /\ child' = Some([returncode |-> rc, out |-> out, err |-> err])
        /\ IF Decodable(out) /\ Decodable(err)
           THEN /\ proc' = Some(CompletedProcess(rc, out, err))
                /\ spc' = "ran"
                /\ UNCHANGED exc
           ELSE /\ exc' = Some(Exception("UnicodeDecodeError",
                            Msg("'utf-8' codec can't decode byte 0xff", <<>>)))
                /\ spc' = "raising"
                /\ UNCHANGED proc
    /\ UNCHANGED <<caller, test_code, tmpdir, tool_ret, tmpfs, n_sandbox>>
    /\ UNCHANGED <<pc, trace, pipeVars, fs, dirs, n_render>>
    /\ UNCHANGED <<batchVars, writers, ext, callVars>>

\* Mutant of AfterValidation: a failing verdict aborts the run.
AfterValidationAbort(v) == IF v.passed THEN "Writing" ELSE "Failed"

\* `if not validation["passed"]: pass` - the pipeline goes on either way.
AfterValidation(v) == "Writing"

\* run_pytest_isolated is left, by its return statement or by the pending
\* exception: the with block's exit runs, then control is back in the caller
\* (for the pipeline: in the try block, or in its except clause).
SandboxExit ==
    /\ spc \in {"ran", "raising"}
    /\ tmpfs' = TemporaryDirectoryExit(tmpfs, Get(tmpdir), exc)
    /\ tmpdir' = None
    /\ spc' = "none"
    /\ IF caller = "pipeline"
       THEN /\ IF spc = "ran"
               THEN /\ validation' = Some(Verdict(Get(proc)))
                    /\ IF AfterValidation(Verdict(Get(proc))) = "Writing"
                       THEN Goto("Writing") /\ UNCHANGED result
                       ELSE Fail(Msg("validation failed", <<>>))
               ELSE /\ Fail(Get(exc).msg)
                    /\ UNCHANGED validation
            /\ UNCHANGED tool_ret
       ELSE /\ IF spc = "ran"
               THEN /\ tool_ret' = Some(Verdict(Get(proc)))
                    /\ Goto("ToolReturned")
               ELSE /\ Goto("ToolRaised")
                    /\ UNCHANGED tool_ret
            /\ UNCHANGED <<validation, result>>
    /\ UNCHANGED <<caller, test_code, proc, exc, child, n_sandbox>>
    /\ UNCHANGED <<file_path, function_name, output_dir, parsed, functions,
                   idx, tests, fs, dirs, n_render, ast_tree>>
    /\ UNCHANGED <<batchVars, writers, ext, callVars>>

\* Mutant of WrittenPath: the `if not tests` guard is missing.
WrittenPathUnguarded(ts, source_file, out) == Some(TestFilePath(source_file, out))

\* The value _write_tests returns: None `if not tests`, else the path.
WrittenPath(ts, source_file, out) ==
    IF ts = <<>> THEN None ELSE Some(TestFilePath(source_file, out))

\* Step 5: _write_tests, then return GenerationResult(success=True, ...).
WriteTests ==
    /\ pc = "Writing"
    /\ IF tests = <<>>
       THEN UNCHANGED <<fs, dirs>>
       ELSE /\ dirs' = dirs \cup {EffectiveOutputDir(output_dir)}
            /\ fs' = WriteFile(fs, TestFilePath(file_path, output_dir),
                               FileContent(tests, file_path))
    /\ result' = Some(GenerationResult(TRUE, tests,
                        WrittenPath(tests, file_path, output_dir), <<>>))
    /\ Goto("Done")
    /\ UNCHANGED <<file_path, function_name, output_dir, parsed, functions,
                   idx, tests, validation, ast_tree>>
    /\ UNCHANGED <<sandVars, n_render>>
    /\ UNCHANGED <<batchVars, writers, ext, callVars>>

Next ==
    \/ \E target \in Targets, out \in OutputDirs :
            Generate(target, out) /\ UNCHANGED cli_args
    \/ \E file \in FileStates : Parse(file)
    \/ Filter
    \/ RenderNext
    \/ RenderEnd
    \/ ValidateCall
    \/ \E code \in ToolCodes : ToolCall(code)
    \/ SandboxWriteText
    \/ SubprocessRunFails
    \/ caller = "pipeline" /\ SubprocessRun(PipelineStreams)
    \/ caller = "tool" /\ SubprocessRun(Streams)
    \/ SandboxExit
    \/ WriteTests

Spec == Init /\ [][Next]_vars

----------------------------------------------------------------------------
\* The analyzer and the renderer used on their own, as tools.

\* parse_python_ast(file_path) on a readable, well-formed file.
AnalyzeTool(t) ==
    /\ pc = "Idle"
    /\ ast_tree' = Some(t)
    /\ parsed' = Some(parse_python_ast(t))
    /\ Goto("Analyzed")
    /\ UNCHANGED <<file_path, function_name, output_dir, functions, idx, tests,
                   validation, result>>
    /\ UNCHANGED <<sandVars, fs, dirs, n_render, batchVars, writers, ext, callVars>>

\* generate_test_code(function_info) on an entry of the function list.
RenderTool ==
    /\ pc = "Analyzed"
    /\ \E i \in 1..Len(Get(parsed).functions) :
        /\ idx' = i
        /\ tests' = <<generate_test_code(Get(parsed).functions[i])>>
    /\ n_render' = n_render + 1
    /\ Goto("RenderedTool")
    /\ UNCHANGED <<file_path, function_name, output_dir, parsed, functions,
                   validation, result, ast_tree>>
    /\ UNCHANGED <<sandVars, fs, dirs, batchVars, writers, ext, callVars>>

ToolNext ==
    \/ \E t \in ToolTrees : AnalyzeTool(t)
    \/ RenderTool

ToolSpec == Init /\ [][ToolNext]_vars

----------------------------------------------------------------------------
\* Calls of TestGen._write_tests by invocations that run one after another
\* or in parallel (threads or processes), step by step.  The steps of an
\* invocation before Writing touch nothing the invocations share.

Writers == {1, 2}

TestF == generate_test_code(FuncInfo(FunctionDef(NameF, <<>>, <<>>, <<>>, <<>>)))
TestG == generate_test_code(FuncInfo(FunctionDef(NameG, <<>>, <<>>, <<>>, <<>>)))

\* The arguments of the calls: tests, source_file, output_dir.
WriteCalls ==
    {[tests |-> <<TestF, TestG>>, source_file |-> SourcePath, output_dir |-> None],
     [tests |-> <<TestF>>, source_file |-> SourcePath, output_dir |-> None],
     [tests |-> <<TestG>>, source_file |-> <<"e", "/", "m", ".", "p", "y">>,
      output_dir |-> None],
     [tests |-> <<TestF>>, source_file |-> <<"d", "/", "n", ".", "p", "y">>,
      output_dir |-> None],
     [tests |-> <<TestF>>, source_file |-> SourcePath, output_dir |-> Some(<<"o">>)],
     [tests |-> <<>>, source_file |-> SourcePath, output_dir |-> None]}

\* A call that has not started.
Writer(call) ==
    [pc |-> "start", tests |-> call.tests, source_file |-> call.source_file,
     output_dir |-> call.output_dir, pending |-> <<>>, pos |-> 0, ret |-> None,
     overlapped |-> FALSE, at_close |-> None]

WriterPath(w) == TestFilePath(w.source_file, w.output_dir)

\* What a file holds where nothing was ever written (a hole reads as NUL).
Hole == Lit("\\0")

\* Mutant of OpenForWriting: the file is opened without truncation.
OpenWithoutTruncation(files, path) ==
    IF IsSome(ReadFile(files, path)) THEN files
    ELSE files \o <<[path |-> path, content |-> <<>>]>>

\* open(path, "w"): the file is created, or truncated if it exists.
OpenForWriting(files, path) ==
    IF IsSome(ReadFile(files, path))
    THEN [i \in 1..Len(files) |->
            IF files[i].path = path THEN [files[i] EXCEPT !.content = <<>>]
            ELSE files[i]]
    ELSE files \o <<[path |-> path, content |-> <<>>]>>

\* write(2) of `data` at offset `pos` of the file at `path`.
WriteAt(files, path, pos, data) ==
    [i \in 1..Len(files) |->
        IF files[i].path # path THEN files[i]
        ELSE LET old == files[i].content
                 before == [k \in 1..pos |-> IF k <= Len(old) THEN old[k] ELSE Hole]
                 after == SubSeq(old, pos + Len(data) + 1, Len(old))
             IN [files[i] EXCEPT !.content = before \o data \o after]]

WritersInit ==
    /\ Idle
    /\ NoBatch
    /\ \E calls \in [Writers -> WriteCalls] :
            writers = [p \in Writers |-> Writer(calls[p])]
    /\ ext = NoCall

invocationVarsButExt ==
    <<pc, trace, pipeVars, sandVars, n_render, batchVars, callVars>>
invocationVars == <<invocationVarsButExt, ext>>

\* Another call has the file at `path` open.
OpenElsewhere(p, path) ==
    \E q \in Writers \ {p} : writers[q].pc = "opened" /\ WriterPath(writers[q]) = path

\* `if not tests: return None`
WriterReturnsNone(p) ==
    /\ writers[p].pc = "start"
    /\ writers[p].tests = <<>>
    /\ writers' = [writers EXCEPT ![p].pc = "returned"]
    /\ UNCHANGED <<fs, dirs, invocationVars>>

\* Path(output_dir).mkdir(parents=True, exist_ok=True)
WriterMkdir(p) ==
    /\ writers[p].pc = "start"
    /\ writers[p].tests # <<>>
    /\ dirs' = dirs \cup {EffectiveOutputDir(writers[p].output_dir)}
    /\ writers' = [writers EXCEPT ![p].pc = "mkdir"]
    /\ UNCHANGED <<fs, invocationVars>>

\* open(test_file, "w"), and the f.write calls, which fill the buffer of f.
WriterOpen(p) ==
    /\ writers[p].pc = "mkdir"
    /\ fs' = OpenForWriting(fs, WriterPath(writers[p]))
    /\ writers' =
         [q \in Writers |->
            IF q = p
            THEN [writers[p] EXCEPT
                    !.pc = "opened",
                    !.pos = 0,
                    !.pending = FileContent(writers[p].tests, writers[p].source_file),
                    !.overlapped = OpenElsewhere(p, WriterPath(writers[p]))]
            ELSE IF writers[q].pc = "opened"
                    /\ WriterPath(writers[q]) = WriterPath(writers[p])
            THEN [writers[q] EXCEPT !.overlapped = TRUE]
            ELSE writers[q]]
    /\ UNCHANGED <<dirs, invocationVars>>

\* The buffer of f fills up before the last f.write: its first n pieces go
\* to the file, at the offset of this open file.
WriterFlush(p) ==
    /\ writers[p].pc = "opened"
    /\ \E n \in 1..(Len(writers[p].pending) - 1) :
        /\ fs' = WriteAt(fs, WriterPath(writers[p]), writers[p].pos,
                         SubSeq(writers[p].pending, 1, n))
        /\ writers' = [writers EXCEPT
                         ![p].pos = writers[p].pos + n,
                         ![p].pending = SubSeq(writers[p].pending, n + 1,
                                               Len(writers[p].pending))]
    /\ UNCHANGED <<dirs, invocationVars>>

\* The with block ends: close() writes what the buffer still holds; then
\* return str(test_file).
WriterClose(p) ==
    /\ writers[p].pc = "opened"
    /\ fs' = WriteAt(fs, WriterPath(writers[p]), writers[p].pos, writers[p].pending)
    /\ writers' = [writers EXCEPT
                     ![p].pc = "returned",
                     ![p].pos = writers[p].pos + Len(writers[p].pending),
                     ![p].pending = <<>>,
                     ![p].ret = Some(WriterPath(writers[p])),
                     ![p].at_close = ReadFile(fs', WriterPath(writers[p]))]
    /\ UNCHANGED <<dirs, invocationVars>>

WritersNext ==
    \E p \in Writers :
        \/ WriterReturnsNone(p)
        \/ WriterMkdir(p)
        \/ WriterOpen(p)
        \/ WriterFlush(p)
        \/ WriterClose(p)

WritersSpec == WritersInit /\ [][WritersNext]_vars

----------------------------------------------------------------------------
\* TestGen.update: generate over the files git reports as changed.

\* Paths `git diff --name-only` may print; it prints each path once.
BatchPaths ==
    {SourcePath, <<"e", "/", "m", ".", "p", "y">>, <<"a", ".", "p", "y">>,
     <<"b", ".", "p", "y">>}

ChangedFileLists ==
    {l \in SeqsUpTo(BatchPaths, MaxBatch) :
        \A i \in 1..Len(l), j \in 1..Len(l) : i # j => l[i] # l[j]}

\* What generate finds when it opens a changed file: a file that cannot be
\* read or parsed, a module without units, one public function, or only a
\* private one.
BatchFileStates ==
    {[kind |-> "unreadable", tree |-> Module(<<>>)],
     [kind |-> "syntax_error", tree |-> Module(<<>>)],
     [kind |-> "ok", tree |-> Module(<<>>)],
     [kind |-> "ok", tree |-> Module(<<FunctionDef(NameF, <<>>, <<>>, <<>>, <<>>)>>)],
     [kind |-> "ok", tree |-> Module(<<FunctionDef(NameG, <<>>, <<>>, <<>>, <<>>)>>)],
     [kind |-> "ok", tree |-> Module(<<FunctionDef(NameH, <<>>, <<>>, <<>>, <<>>)>>)]}

\* Mutant of AfterFile: the loop is left at the first file with an error.
AfterFileStopsAtError(done, total, errs) ==
    IF done < total /\ errs = <<>> THEN "loop" ELSE "leaving"

\* `for file_path in changed_files:` - the loop goes on to the next file
\* whatever the one before gave, and is left after the last.
AfterFile(done, total, errs) == IF done < total THEN "loop" ELSE "leaving"

\* update(since) up to the loop: the paths git printed, two empty lists.
Update(files) ==
    /\ upc = "none"
    /\ pc = "Idle"
    /\ changed_files' = files
    /\ all_tests' = <<>>
    /\ errors' = <<>>
    /\ processed' = <<>>
    /\ upc' = AfterFile(0, Len(files), <<>>)
    /\ UNCHANGED <<update_result, writers, ext, callVars>>
    /\ UNCHANGED <<pc, trace, pipeVars, sandVars, fs, dirs, n_render>>

\* The file the loop of update is at.
CurrentFile == changed_files[Len(processed) + 1]

\* `if Path(file_path).exists():` is false - the file is passed over.
UpdateSkip ==
    /\ upc = "loop"
    /\ pc = "Idle"
    /\ processed' = Append(processed,
                        [path |-> CurrentFile, exists |-> FALSE, gen_result |-> None])
    /\ upc' = AfterFile(Len(processed'), Len(changed_files), <<>>)
    /\ UNCHANGED <<changed_files, all_tests, errors, update_result, writers, ext, callVars>>
    /\ UNCHANGED <<pc, trace, pipeVars, sandVars, fs, dirs, n_render>>

\* `gen_result = self.generate(file_path)` - the call.
UpdateCallsGenerate ==
    /\ upc = "loop"
    /\ Generate(CurrentFile, None)
    /\ UNCHANGED cli_args

\* generate has returned: all_tests.extend(gen_result.tests);
\* errors.extend(gen_result.errors); the frame of the call is gone.
UpdateExtend ==
    /\ upc = "loop"
    /\ pc \in {"Done", "Failed"}
    /\ all_tests' = all_tests \o Get(result).tests
    /\ errors' = errors \o Get(result).errors
    /\ processed' = Append(processed,
                        [path |-> CurrentFile, exists |-> TRUE, gen_result |-> result])
    /\ upc' = AfterFile(Len(processed'), Len(changed_files), Get(result).errors)
    /\ pc' = "Idle"
    /\ trace' = <<>>
    /\ file_path' = <<>>
    /\ function_name' = None
    /\ output_dir' = None
    /\ parsed' = None
    /\ functions' = <<>>
    /\ idx' = 0
    /\ tests' = <<>>
    /\ validation' = None
    /\ result' = None
    /\ ast_tree' = None
    /\ arg_target' = None
    /\ caller' = "none"
    /\ test_code' = <<>>
    /\ proc' = None
    /\ exc' = None
    /\ child' = None
    /\ UNCHANGED <<spc, tmpdir, tool_ret, tmpfs, n_sandbox, fs, dirs, n_render>>
    /\ UNCHANGED <<changed_files, update_result, writers, ext, cli_args>>

\* return GenerationResult(success=len(errors) == 0, tests=all_tests,
\* errors=errors)
UpdateReturn ==
    /\ upc = "leaving"
    /\ update_result' = Some(GenerationResult(Len(errors) = 0, all_tests, None, errors))
    /\ upc' = "returned"
    /\ UNCHANGED <<changed_files, all_tests, errors, processed, writers, ext, callVars>>
    /\ UNCHANGED <<pc, trace, pipeVars, sandVars, fs, dirs, n_render>>

BatchNext ==
    \/ \E files \in ChangedFileLists : Update(files)
    \/ UpdateSkip
    \/ UpdateCallsGenerate
    \/ \E file \in BatchFileStates : Parse(file)
    \/ Filter
    \/ RenderNext
    \/ RenderEnd
    \/ ValidateCall
    \/ SandboxWriteText
    \/ SubprocessRunFails
    \/ SubprocessRun(PipelineStreams)
    \/ SandboxExit
    \/ WriteTests
    \/ UpdateExtend
    \/ UpdateReturn

BatchSpec == Init /\ [][BatchNext]_vars

----------------------------------------------------------------------------
\* The tools that rely on an external collaborator: generate_test_code_llm
\* (an agent of praisonaiagents) and validate_test_quality (the judge of
\* testagent).

\* Signatures handed to generate_test_code_llm.
HookFunctions ==
    {FuncInfo(FunctionDef(NameF, <<>>, <<>>, <<>>, <<>>)),
     FuncInfo(FunctionDef(NameF, <<>>, <<Arg("a", Some("int"))>>, <<>>, <<>>)),
     FuncInfo(FunctionDef(NameG, <<>>, <<Arg("a", None)>>, <<"0">>, <<>>))}

\* What a response is made of: a fence of three backquotes, the word after
\* an opening fence, test code, a line break, prose.
Fence == "<three backquotes>"
ResponseTokens == {Fence, "python", "def test_f(): ...", "\n", "Sure!"}
Responses == SeqsUpTo(ResponseTokens, MaxResponse)

\* What loading, constructing or calling a collaborator may raise.
CollaboratorErrors ==
    {Exception("ImportError", Msg("No module named 'litellm'", <<>>)),
     Exception("RuntimeError", Msg("collaborator failed", <<>>))}

\* s.split(sep)[1] and s.split(sep)[0] for a text that contains sep, and
\* s.split(Fence)[0] for any text.
FencePositions(s) == {i \in 1..Len(s) : s[i] = Fence}
PythonFencePositions(s) == {i \in 1..(Len(s) - 1) : s[i] = Fence /\ s[i + 1] = "python"}
BeforeFence(s) ==
    IF FencePositions(s) = {} THEN s ELSE SubSeq(s, 1, Min(FencePositions(s)) - 1)
AfterPythonFence(s) ==
    LET rest == SubSeq(s, Min(PythonFencePositions(s)) + 2, Len(s))
    IN IF PythonFencePositions(rest) = {} THEN rest
       ELSE SubSeq(rest, 1, Min(PythonFencePositions(rest)) - 1)
AfterFence(s) == BeforeFence(SubSeq(s, Min(FencePositions(s)) + 1, Len(s)))

\* str.strip()
RECURSIVE LStrip(_)
LStrip(s) == IF s # <<>> /\ Head(s) = "\n" THEN LStrip(Tail(s)) ELSE s
RECURSIVE RStrip(_)
RStrip(s) ==
    IF s # <<>> /\ s[Len(s)] = "\n" THEN RStrip(SubSeq(s, 1, Len(s) - 1)) ELSE s
Strip(s) == LStrip(RStrip(s))

\* The clean-up of the response: the content of the first fenced block
\* opened with the word python, else of the first fenced block, else the
\* whole response; stripped.
CleanUp(response) ==
    Strip(IF PythonFencePositions(response) # {}
          THEN BeforeFence(AfterPythonFence(response))
          ELSE IF FencePositions(response) # {}
          THEN AfterFence(response)
          ELSE response)

\* The text a tool returns: of a response, or of a rendered template.
TextOfTokens(s) == [i \in 1..Len(s) |-> Lit(s[i])]
TextOfTest(t) == <<TestPiece(t)>>

\* An exception leaves the tool.
Raises(e, point) ==
    ext' = [ext EXCEPT !.at = "raised", !.raised = Some(e),
                       !.faults = Append(@, point)]

\* An exception is caught by the tool's except clause.
Handles(point, handler) ==
    ext' = [ext EXCEPT !.at = handler, !.faults = Append(@, point)]

\* generate_test_code_llm(function_info) is called.
HookCall(fi) ==
    /\ ext.fn = "none"
    /\ ext' = [NoCall EXCEPT !.fn = "generate_test_code_llm", !.at = "import",
                             !.function_info = Some(fi)]
    /\ UNCHANGED <<invocationVarsButExt, fs, dirs, writers>>

\* from praisonaiagents import Agent - before the try statement.
HookImport ==
    /\ ext.fn = "generate_test_code_llm"
    /\ ext.at = "import"
    /\ \/ ext' = [ext EXCEPT !.at = "construct"]
       \/ \E e \in CollaboratorErrors : Raises(e, "import")
    /\ UNCHANGED <<invocationVarsButExt, fs, dirs, writers>>

\* test_generator = Agent(...) - before the try statement.
HookConstruct ==
    /\ ext.fn = "generate_test_code_llm"
    /\ ext.at = "construct"
    /\ \/ ext' = [ext EXCEPT !.at = "chat"]
       \/ \E e \in CollaboratorErrors : Raises(e, "construct")
    /\ UNCHANGED <<invocationVarsButExt, fs, dirs, writers>>

\* response = test_generator.chat(...) - inside the try statement.
HookChat ==
    /\ ext.fn = "generate_test_code_llm"
    /\ ext.at = "chat"
    /\ \/ \E r \in Responses :
            ext' = [ext EXCEPT !.at = "cleanup", !.response = Some(r)]
       \/ Handles("chat", "fallback")
    /\ UNCHANGED <<invocationVarsButExt, fs, dirs, writers>>

\* result = str(response), the clean-up and `return result.strip()` -
\* inside the try statement; str may raise.
HookCleanUp ==
    /\ ext.fn = "generate_test_code_llm"
    /\ ext.at = "cleanup"
    /\ \/ ext' = [ext EXCEPT !.at = "returned",
                             !.ret = Some(TextOfTokens(CleanUp(Get(ext.response))))]
       \/ Handles("cleanup", "fallback")
    /\ UNCHANGED <<invocationVarsButExt, fs, dirs, writers>>

\* except Exception: return generate_test_code(function_info)
HookFallback ==
    /\ ext.fn = "generate_test_code_llm"
    /\ ext.at = "fallback"
    /\ ext' = [ext EXCEPT !.at = "returned",
                          !.ret = Some(TextOfTest(generate_test_code(Get(ext.function_info))))]
    /\ UNCHANGED <<invocationVarsButExt, fs, dirs, writers>>

\* What judge.judge returns: a score out of ten, a verdict, a reasoning.
JudgeResults ==
    {[score |-> sc, passed |-> p, reasoning |-> "looks fine"] :
        sc \in {2, 5, 9}, p \in BOOLEAN}

\* The value returned when testagent cannot be imported.
NeutralDefault ==
    [score |-> 5, passed |-> TRUE,
     feedback |-> "testagent not installed - basic validation passed"]

\* except ImportError
CaughtByQuality(e) == e.type = "ImportError"

\* An exception arises inside the try statement of validate_test_quality.
QualityFault(e, point) ==
    IF CaughtByQuality(e) THEN Handles(point, "default") ELSE Raises(e, point)

\* validate_test_quality(test_code) is called.
QualityCall(code) ==
    /\ ext.fn = "none"
    /\ ext' = [NoCall EXCEPT !.fn = "validate_test_quality", !.at = "import",
                             !.code = code]
    /\ UNCHANGED <<invocationVarsButExt, fs, dirs, writers>>

\* from testagent import CodeJudge - testagent is installed, or is not, or
\* fails while it is loaded.
QualityImport ==
    /\ ext.fn = "validate_test_quality"
    /\ ext.at = "import"
    /\ \/ ext' = [ext EXCEPT !.at = "construct"]
       \/ QualityFault(Exception("ImportError",
                        Msg("No module named 'testagent'", <<>>)), "import")
       \/ \E e \in CollaboratorErrors : QualityFault(e, "import")
    /\ UNCHANGED <<invocationVarsButExt, fs, dirs, writers>>

\* judge = CodeJudge()
QualityConstruct ==
    /\ ext.fn = "validate_test_quality"
    /\ ext.at = "construct"
    /\ \/ ext' = [ext EXCEPT !.at = "judge"]
       \/ \E e \in CollaboratorErrors : QualityFault(e, "construct")
    /\ UNCHANGED <<invocationVarsButExt, fs, dirs, writers>>

\* result = judge.judge(test_code, criteria=...)
QualityJudge ==
    /\ ext.fn = "validate_test_quality"
    /\ ext.at = "judge"
    /\ \/ \E jr \in JudgeResults :
            ext' = [ext EXCEPT !.at = "judged", !.response = Some(jr)]
       \/ \E e \in CollaboratorErrors : QualityFault(e, "judge")
    /\ UNCHANGED <<invocationVarsButExt, fs, dirs, writers>>

\* return {"score": result.score, "passed": result.passed, "feedback":
\* result.reasoning}
QualityReturn ==
    /\ ext.fn = "validate_test_quality"
    /\ ext.at = "judged"
    /\ ext' = [ext EXCEPT !.at = "returned",
                          !.ret = Some([score |-> Get(ext.response).score,
                                        passed |-> Get(ext.response).passed,
                                        feedback |-> Get(ext.response).reasoning])]
    /\ UNCHANGED <<invocationVarsButExt, fs, dirs, writers>>

\* The except clause: return the neutral default.
QualityDefault ==
    /\ ext.fn = "validate_test_quality"
    /\ ext.at = "default"
    /\ ext' = [ext EXCEPT !.at = "returned", !.ret = Some(NeutralDefault)]
    /\ UNCHANGED <<invocationVarsButExt, fs, dirs, writers>>

CollaboratorNext ==
    \/ \E fi \in HookFunctions : HookCall(fi)
    \/ HookImport
    \/ HookConstruct
    \/ HookChat
    \/ HookCleanUp
    \/ HookFallback
    \/ \E code \in ToolCodes : QualityCall(code)
    \/ QualityImport
    \/ QualityConstruct
    \/ QualityJudge
    \/ QualityReturn
    \/ QualityDefault

CollaboratorSpec == Init /\ [][CollaboratorNext]_vars

----------------------------------------------------------------------------
\* generate called with any target string, directly or by the command
\* `testgen generate TARGET [--output DIR] [--function NAME]` (cli.py).

\* Characters of a target: the colon and one other.
TargetChars == {":", "f"}
TargetStrings == SeqsUpTo(TargetChars, MaxTarget)

\* What the command line may give as TARGET and as NAME.
CliTargets == SeqsUpTo(TargetChars, MaxTarget - 3)
CliFunctions == {None} \cup {Some(f) : f \in SeqsUpTo(TargetChars, MaxTarget - 3)}

\* `if function: target = f"{target}::{function}"`
CliTarget(path, function) ==
    IF IsSome(function) /\ Get(function) # <<>>
    THEN path \o <<":", ":">> \o Get(function)
    ELSE path

\* The command `generate` up to its call of testgen.generate.
CliGenerate(path, function, out) ==
    /\ cli_args = None
    /\ cli_args' = Some([target |-> path, function |-> function, output |-> out,
                         exit_code |-> None])
    /\ Generate(CliTarget(path, function), out)

\* The command `generate` once testgen.generate has returned: it ends
\* normally if result.success, else by typer.Exit(1).
CliExit ==
    /\ IsSome(cli_args)
    /\ IsNone(Get(cli_args).exit_code)
    /\ pc \in {"Done", "Failed"}
    /\ cli_args' = Some([Get(cli_args) EXCEPT
                            !.exit_code = Some(IF Get(result).success THEN 0 ELSE 1)])
    /\ UNCHANGED <<pc, trace, pipeVars, sandVars, fs, dirs, n_render>>
    /\ UNCHANGED <<batchVars, writers, ext, arg_target>>

CliNext ==
    \/ \E path \in CliTargets, function \in CliFunctions, out \in OutputDirs :
            CliGenerate(path, function, out)
    \/ \E target \in TargetStrings, out \in OutputDirs :
            Generate(target, out) /\ UNCHANGED cli_args
    \/ \E file \in BatchFileStates : Parse(file)
    \/ Filter
    \/ RenderNext
    \/ RenderEnd
    \/ ValidateCall
    \/ SandboxWriteText
    \/ SubprocessRunFails
    \/ SubprocessRun(PipelineStreams)
    \/ SandboxExit
    \/ WriteTests
    \/ CliExit

CliSpec == Init /\ [][CliNext]_vars

\* A step of the program other than inside a direct tool call of
\* run_pytest_isolated.
PipelineNext == caller # "tool" /\ Next

\* During an invocation of generate the interpreter keeps executing and the
\* spawned runner terminates (subprocess.run is called without a timeout).
FairSpec == Spec /\ WF_vars(PipelineNext)

----------------------------------------------------------------------------
\* Vocabulary of the properties.

BeginsWithUnderscore(name) == Len(name) >= 1 /\ name[1] = "_"

\* The function a rendered test calls.
TargetOf(t) == t.basic.callee

\* The tests held by the files written so far.
FileTests == UNION {Range(TestsOf(fs[i].content)) : i \in 1..Len(fs)}

ResultTests == IF IsSome(result) THEN Range(Get(result).tests) ELSE {}

\* The pipeline's call of the sandbox is over and left a verdict of failure.
FailVerdict ==
    /\ caller = "pipeline"
    /\ spc = "none"
    /\ IsSome(child)
    /\ Get(child).returncode # 0
    /\ IsSome(validation)

\* generate() returned success with every rendered test, all of them written.
SucceededWithAllTests ==
    /\ pc = "Done"
    /\ IsSome(result)
    /\ Get(result).success
    /\ Get(result).tests = tests
    /\ Len(tests) = n_render
    /\ IsSome(Get(result).test_file)
    /\ IsSome(ReadFile(fs, Get(Get(result).test_file)))
    /\ TestsOf(Get(ReadFile(fs, Get(Get(result).test_file)))) = tests

----------------------------------------------------------------------------
\* C1: no test in the tests being collected, in the result's tests list or in
\* a written output file targets a function whose name begins with an
\* underscore, whatever the module and whatever unit name was requested
\* (a private one included).
C1_NoPrivateTests ==
    \A t \in Range(tests) \cup ResultTests \cup FileTests :
        ~BeginsWithUnderscore(TargetOf(t))

\* C1 witness: a run that analyzed a private function wrote its output file.
C1_Witness ==
    /\ pc = "Done"
    /\ fs # <<>>
    /\ \E i \in 1..Len(Get(parsed).functions) :
            BeginsWithUnderscore(Get(parsed).functions[i].name)

\* C1, second case: a run that was asked for a private unit by name ended.
C1_WitnessPrivateRequested ==
    /\ pc = "Done"
    /\ IsSome(function_name)
    /\ BeginsWithUnderscore(Get(function_name))
    /\ functions # <<>>

\* C2: once the sandbox has returned a fail verdict the pipeline is at
\* Writing or Done, never Failed, and at Done it has returned success=true
\* with every rendered test, all written to the output file.
C2_FailVerdictDoesNotAbort ==
    FailVerdict =>
        /\ pc \in {"Writing", "Done"}
        /\ pc = "Done" => SucceededWithAllTests

\* C2 witness: a run with two rendered tests ended after a fail verdict.
C2_Witness ==
    /\ FailVerdict
    /\ ~Get(validation).passed
    /\ pc = "Done"
    /\ Len(tests) >= 2

\* The runner could not be started during the pipeline's Validating step.
LaunchFailed ==
    /\ caller = "pipeline"
    /\ spc = "none"
    /\ IsSome(exc)
    /\ Get(exc).type = "FileNotFoundError"

\* C3 (as claimed): when the runner cannot be invoked during Validating,
\* generate() still ends with success=true, all rendered tests and the
\* output file written.
C3_LaunchFailureOnlyLosesValidation ==
    LaunchFailed =>
        /\ pc \in {"Writing", "Done"}
        /\ pc = "Done" => SucceededWithAllTests

\* C4 (as claimed): a result returned after a fail verdict carries that
\* verdict: some field of it differs from the result of the same run with a
\* pass verdict, which has success=true, the same tests and path, no coverage,
\* no validation score and no errors.
C4_ResultCarriesFailingVerdict ==
    (FailVerdict /\ pc = "Done") =>
        \/ Get(result).coverage # None
        \/ Get(result).validation_score # None
        \/ Get(result).errors # <<>>
        \/ ~Get(result).success

\* C5: when analysis yields zero functions and zero classes, generate() has
\* returned success=false with the no-testable-units message and no tests;
\* nothing was rendered, the sandbox was not invoked, nothing was written.
C5_NoUnitsFails ==
    (IsSome(parsed) /\ Get(parsed).functions = <<>> /\ Get(parsed).classes = <<>>) =>
        /\ pc = "Failed"
        /\ IsSome(result)
        /\ ~Get(result).success
        /\ Get(result).errors = <<NoUnitsMsg>>
        /\ Get(result).tests = <<>>
        /\ tests = <<>>
        /\ n_render = 0
        /\ n_sandbox = 0
        /\ fs = <<>>
        /\ dirs = {}

\* C5 witness: a file was analyzed and held no function and no class.
C5_Witness ==
    /\ IsSome(parsed)
    /\ Get(parsed).functions = <<>>
    /\ Get(parsed).classes = <<>>
    /\ pc = "Failed"

\* A unit name was requested: the target had a non-empty name after "::".
UnitRequested == IsSome(function_name) /\ Get(function_name) # <<>>

\* Some analyzed function has exactly the requested name.
UnitAnalyzed ==
    \E i \in 1..Len(Get(parsed).functions) :
        Get(parsed).functions[i].name = Get(function_name)

\* generate() returned the unit-not-found failure: no tests, nothing
\* rendered, validated or written.
FailedUnitNotFound ==
    /\ pc = "Failed"
    /\ IsSome(result)
    /\ ~Get(result).success
    /\ Get(result).errors = <<NotFoundMsg(Get(function_name))>>
    /\ Get(result).tests = <<>>
    /\ n_render = 0
    /\ n_sandbox = 0
    /\ fs = <<>>

\* What C6 promises of a run that has got past Filtering or has ended.
UnitRequestHonoured ==
    IF UnitAnalyzed
    THEN \A t \in Range(tests) \cup ResultTests \cup FileTests :
            TargetOf(t) = Get(function_name)
    ELSE FailedUnitNotFound

\* C6 (as claimed): when a unit name is requested and the file was analyzed,
\* a run that is past Filtering either failed with unit-not-found (no
\* analyzed function has that name) or renders only tests of that name.
C6_UnitRequest_Original ==
    (UnitRequested /\ IsSome(parsed) /\ pc \notin {"Parsing", "Filtering"})
        => UnitRequestHonoured

\* C6 (amended): the same, for files in which analysis found at least one
\* function or class; a file with neither fails with the no-testable-units
\* message before the name is looked at.
C6_UnitRequest_Amended ==
    (/\ UnitRequested
     /\ IsSome(parsed)
     /\ ~(Get(parsed).functions = <<>> /\ Get(parsed).classes = <<>>)
     /\ pc \notin {"Parsing", "Filtering"})
        => UnitRequestHonoured

\* C6 witness: a unit no function of the file is named after was requested of
\* a file that has functions, and the run failed.
C6_Witness ==
    /\ UnitRequested
    /\ IsSome(parsed)
    /\ Get(parsed).functions # <<>>
    /\ ~UnitAnalyzed
    /\ pc = "Failed"

\* C6, second case: the requested unit was found among others and rendered.
C6_WitnessFound ==
    /\ UnitRequested
    /\ pc = "Done"
    /\ tests # <<>>
    /\ Len(Get(parsed).functions) > Len(functions)

\* The sandbox call that was made is over.
SandboxLeft == n_sandbox > 0 /\ spc = "none"

\* C7: after run_pytest_isolated has returned or raised, its temporary
\* directory (and the test file in it) no longer exists.
C7_TempDirRemoved == SandboxLeft => tmpfs = {}

\* C7 witness: the call ended by raising because the runner could not be
\* started, after the test file had been written into the directory.
C7_Witness ==
    /\ SandboxLeft
    /\ pc = "ToolRaised"
    /\ Get(exc).type = "FileNotFoundError"

\* C7, other exits: a pass verdict and a fail verdict were returned.
C7_WitnessPass == SandboxLeft /\ IsSome(tool_ret) /\ Get(tool_ret).passed
C7_WitnessFail == SandboxLeft /\ IsSome(tool_ret) /\ ~Get(tool_ret).passed

\* What the caller of run_pytest_isolated got back, if it returned.
ReturnedVerdict == IF caller = "tool" THEN tool_ret ELSE validation

\* The runner was spawned and exited, and the call is over.
RunnerExited == SandboxLeft /\ IsSome(child)

RECURSIVE NewlinesNormalised(_)
NewlinesNormalised(s) ==
    IF s = <<>> THEN <<>>
    ELSE IF Len(s) >= 2 /\ s[1] = "CR" /\ s[2] = "LF"
         THEN <<"LF">> \o NewlinesNormalised(SubSeq(s, 3, Len(s)))
    ELSE <<IF s[1] = "CR" THEN "LF" ELSE s[1]>> \o NewlinesNormalised(Tail(s))

C9_ResultConsistent ==
    IsSome(result) =>
        LET r == Get(result)
        IN /\ ~r.success =>
                (r.tests = <<>> /\ r.test_file = None /\ r.errors # <<>>)
           /\ r.success =>
                (r.errors = <<>> /\ (IsSome(r.test_file) <=> r.tests # <<>>))

\* C9 witness: a successful result with no tests (only private functions).
C9_Witness ==
    /\ IsSome(result)
    /\ Get(result).success
    /\ Get(result).tests = <<>>
    /\ functions # <<>>

\* C9, other cases: a failed result, and a successful one with tests.
C9_WitnessFailed == IsSome(result) /\ ~Get(result).success /\ n_render > 0
C9_WitnessTests == IsSome(result) /\ Get(result).success /\ Get(result).tests # <<>>

\* The place of a step in the order of the pipeline.
StepRank(step) ==
    CASE step = "Parsing" -> 1
      [] step = "Filtering" -> 2
      [] step = "Rendering" -> 3
      [] step = "Validating" -> 4
      [] step = "Writing" -> 5
      [] step = "Done" -> 6
      [] step = "Failed" -> 7
      [] OTHER -> 0

\* This behaviour is an invocation of generate().
Invoked == trace # <<>> /\ trace[1] = "Parsing"

\* The steps entered so far are in pipeline order, each entered once, and
\* nothing follows Done or Failed.
StepsInOrder ==
    Invoked =>
        /\ \A i \in 1..Len(trace) : StepRank(trace[i]) >= 1
        /\ \A i \in 1..(Len(trace) - 1) :
            /\ StepRank(trace[i]) < StepRank(trace[i + 1])
            /\ trace[i] # "Done"
        /\ pc = trace[Len(trace)]

\* While the sandbox runs for the pipeline, the step is Validating, the
\* rendering loop has gone through every function, and no output directory
\* or file has been touched yet.
SandboxBetweenRenderingAndWriting ==
    (caller = "pipeline" /\ spc # "none") =>
        /\ pc = "Validating"
        /\ idx > Len(functions)
        /\ fs = <<>>
        /\ dirs = {}

\* A step of an invocation renders only in Rendering and before any sandbox
\* call, starts the sandbox only in Validating and only once, writes only
\* when leaving Writing, and changes nothing once in Failed or Done.
StepEffectsInPlace ==
    Invoked =>
        /\ n_render' # n_render => (pc = "Rendering" /\ n_sandbox = 0)
        /\ n_sandbox' # n_sandbox => (pc = "Validating" /\ n_sandbox = 0)
        /\ (fs' # fs \/ dirs' # dirs) => (pc = "Writing" /\ pc' = "Done")
        /\ pc \in {"Failed", "Done"} => UNCHANGED vars

\* C10: within one invocation the steps occur in the order Parsing,
\* Filtering, Rendering, Validating, Writing, Done, each at most once; the
\* sandbox runs only after all rendering and before the output file is
\* opened; Failed is absorbing; and the invocation ends in Done or Failed.
C10_StepOrder ==
    /\ [](StepsInOrder /\ SandboxBetweenRenderingAndWriting)
    /\ [][StepEffectsInPlace]_vars
    /\ [](Invoked => <>(pc \in {"Done", "Failed"}))

\* C10 witness: an invocation went through all six steps.
C10_Witness ==
    trace = <<"Parsing", "Filtering", "Rendering", "Validating", "Writing", "Done">>

\* C10, other case: an invocation failed in Validating, after rendering.
C10_WitnessFailed ==
    trace = <<"Parsing", "Filtering", "Rendering", "Validating", "Failed">>

----------------------------------------------------------------------------
\* The Filtering step let the run through, and every function it kept (after
\* the name filter, if a unit was requested) is private; the file has units.
OnlyPrivateRemain ==
    /\ Invoked
    /\ \E i \in 1..Len(trace) : trace[i] = "Rendering"
    /\ ~(Get(parsed).functions = <<>> /\ Get(parsed).classes = <<>>)
    /\ \A i \in 1..Len(functions) : BeginsWithUnderscore(functions[i].name)

\* C11: when analysis found a unit and every function left after the name
\* filter is private, the run never fails and never starts the sandbox,
\* creates no output directory or file, and ends with success=true, an empty
\* tests list, no output path and no errors.
C11_SuccessWithEmptyOutput ==
    OnlyPrivateRemain =>
        /\ pc \in {"Rendering", "Writing", "Done"}
        /\ tests = <<>>
        /\ n_render = 0
        /\ n_sandbox = 0
        /\ spc = "none"
        /\ fs = <<>>
        /\ dirs = {}
        /\ pc = "Done" =>
                /\ IsSome(result)
                /\ Get(result).success
                /\ Get(result).tests = <<>>
                /\ Get(result).test_file = None
                /\ Get(result).errors = <<>>

\* C11 witness: a run over a file whose only functions are private ended.
C11_Witness ==
    /\ OnlyPrivateRemain
    /\ functions # <<>>
    /\ pc = "Done"

\* C11, other cases: the private unit was requested by name; the file holds
\* a class and no function at all.
C11_WitnessRequested == OnlyPrivateRemain /\ UnitRequested /\ pc = "Done"
C11_WitnessClassOnly ==
    OnlyPrivateRemain /\ Get(parsed).functions = <<>> /\ pc = "Done"

----------------------------------------------------------------------------
\* The function definitions found directly in the body of some class of the
\* analyzed tree, and all the function definitions of the tree.
ClassOwnedDefs(t) ==
    Concat([i \in 1..Len(SelectSeq(Walk(<<t>>), IsClassDef)) |->
                SelectSeq(SelectSeq(Walk(<<t>>), IsClassDef)[i].body, IsFunctionDef)])

AllFunctionDefs(t) == SelectSeq(Walk(<<t>>), IsFunctionDef)

\* The methods listed in the class summaries of an analysis result.
SummarisedMethods(p) == Concat([i \in 1..Len(p.classes) |-> p.classes[i].methods])

\* C12 (as claimed): a function definition is recorded once: the methods
\* defined directly in a class body are in that class's method summary and
\* are not entries of the function list, which therefore has exactly as many
\* entries as the file has function definitions outside class bodies.
C12_MethodsNotInFunctionList ==
    (IsSome(parsed) /\ IsSome(ast_tree)) =>
        /\ Len(SummarisedMethods(Get(parsed))) = Len(ClassOwnedDefs(Get(ast_tree)))
        /\ Len(Get(parsed).functions)
              = Len(AllFunctionDefs(Get(ast_tree))) - Len(ClassOwnedDefs(Get(ast_tree)))

----------------------------------------------------------------------------
\* Vocabulary of the renderer's properties.  In a state of ToolSpec with
\* pc = "RenderedTool", tests[1] is the test rendered for the idx-th entry of
\* the function list, which comes from the idx-th function definition of
\* the analyzed tree.

RenderedNode == AllFunctionDefs(Get(ast_tree))[idx]
RenderedSignature == Get(parsed).functions[idx]
RenderedBasic == tests[1].basic

\* The parameters the author declared, left to right.
DeclaredParams(node) == node.posonlyargs \o node.args

\* The default the author wrote for the j-th declared parameter, if any:
\* Python gives the defaults to the last parameters.
DeclaredDefault(node, j) ==
    LET n == Len(DeclaredParams(node))
        d == Len(node.defaults)
    IN IF j > n - d THEN Some(node.defaults[j - (n - d)]) ELSE None

\* The positions of the declared parameters called `name`.
PositionsOf(node, name) ==
    {j \in 1..Len(DeclaredParams(node)) : DeclaredParams(node)[j].arg = name}

\* C13 (as claimed): every binding of the Arrange block whose parameter was
\* declared with a default has that default's text, exactly as the author
\* wrote it, as its value.
C13_DefaultVerbatim ==
    pc = "RenderedTool" =>
        \A i \in 1..Len(RenderedBasic.arrange) :
            \A j \in PositionsOf(RenderedNode, RenderedBasic.arrange[i].lhs) :
                IsSome(DeclaredDefault(RenderedNode, j)) =>
                    RenderedBasic.arrange[i].rhs = Get(DeclaredDefault(RenderedNode, j))

\* The value the dispatch table gives for an annotation text (none: a
\* parameter without annotation).
TableValue(annotation) ==
    IF IsNone(annotation) THEN "None"
    ELSE CASE Get(annotation) = "int" -> "1"
           [] Get(annotation) = "float" -> "1.0"
           [] Get(annotation) = "str" -> "\"test\""
           [] Get(annotation) = "bool" -> "True"
           [] Get(annotation) = "list" -> "[]"
           [] Get(annotation) = "dict" -> "{}"
           [] OTHER -> "None"

\* An annotation without the parentheses an author may put around it.
Unparenthesised(annotation) ==
    IF annotation = Some("(int)") THEN Some("int") ELSE annotation

\* Every parameter of the signature gets a binding, and the bindings of the
\* parameters declared without a default have the values Value gives.
ValuesWithoutDefault(Value(_)) ==
    /\ Len(RenderedBasic.arrange) = Len(RenderedSignature.args)
    /\ \A i \in 1..Len(RenderedBasic.arrange) :
        /\ RenderedBasic.arrange[i].lhs = RenderedSignature.args[i]
        /\ \A j \in PositionsOf(RenderedNode, RenderedBasic.arrange[i].lhs) :
              IsNone(DeclaredDefault(RenderedNode, j)) =>
                  RenderedBasic.arrange[i].rhs
                      = Value(DeclaredParams(RenderedNode)[j].annotation)

\* C14 (as claimed): every parameter of the signature gets a value, and for
\* one without a default it is the table's value for the exact text of its
\* annotation: 1 for int, 1.0 for float, "test" for str, True for bool, []
\* for list, {} for dict, None for any other text and for no annotation.
C14_TypeDispatch_Original ==
    pc = "RenderedTool" => ValuesWithoutDefault(TableValue)

\* C14 (amended): the same, the text matched being the annotation as
\* ast.unparse prints it, so that an annotation in redundant parentheses,
\* (int), is matched as int.
C14_TypeDispatch_Amended ==
    pc = "RenderedTool" =>
        ValuesWithoutDefault(LAMBDA ann : TableValue(Unparenthesised(ann)))

\* C14 witness: a test was rendered for f(a: List[int], b: bool).
C14_Witness ==
    /\ pc = "RenderedTool"
    /\ RenderedNode.args = <<Arg("a", Some("List[int]")), Arg("b", Some("bool"))>>
    /\ RenderedNode.defaults = <<>>

\* C14, other cases: a parameter without annotation; one annotated (int).
C14_WitnessBare ==
    pc = "RenderedTool" /\ RenderedNode.args = <<Arg("a", None)>>
        /\ RenderedNode.defaults = <<>>
C14_WitnessParenthesised ==
    pc = "RenderedTool" /\ RenderedNode.args = <<Arg("a", Some("(int)"))>>

\* C15: the Arrange block of the basic test has exactly one binding per
\* parameter of the signature, in the signature's order, and the Act block
\* calls the unit by its name with those same names in that same order.
C15_ArrangeAndCallInOrder ==
    pc = "RenderedTool" =>
        /\ Len(RenderedBasic.arrange) = Len(RenderedSignature.args)
        /\ \A i \in 1..Len(RenderedSignature.args) :
              RenderedBasic.arrange[i].lhs = RenderedSignature.args[i]
        /\ RenderedBasic.callee = RenderedSignature.name
        /\ Len(RenderedBasic.call_args) = Len(RenderedSignature.args)
        /\ \A i \in 1..Len(RenderedSignature.args) :
              RenderedBasic.call_args[i] = RenderedBasic.arrange[i].lhs
        /\ RenderedBasic.assertion = "assert result is not None"

\* C15 witness: the test rendered for f(a: int, b: int) arranges a = 1 and
\* b = 1 and calls f(a, b).
C15_Witness ==
    /\ pc = "RenderedTool"
    /\ RenderedNode.args = <<Arg("a", Some("int")), Arg("b", Some("int"))>>
    /\ RenderedNode.defaults = <<>>
    /\ RenderedBasic.arrange = <<[lhs |-> "a", rhs |-> "1"], [lhs |-> "b", rhs |-> "1"]>>
    /\ RenderedBasic.callee = NameF
    /\ RenderedBasic.call_args = <<"a", "b">>

\* C15, other case: a function without parameters: no binding, call f().
C15_WitnessNoArgs ==
    /\ pc = "RenderedTool"
    /\ RenderedSignature.args = <<>>
    /\ RenderedBasic.arrange = <<>>
    /\ RenderedBasic.call_args = <<>>

----------------------------------------------------------------------------
\* Vocabulary of the output file's properties (states of WritersSpec).

\* The name of a source file without its directories and its .py suffix.
SourceBasename(path) ==
    LET start == IF \E i \in 1..Len(path) : path[i] = "/"
                 THEN 1 + CHOOSE i \in 1..Len(path) :
                            /\ path[i] = "/"
                            /\ \A j \in (i + 1)..Len(path) : path[j] # "/"
                 ELSE 1
    IN SubSeq(path, start, Len(path) - 3)

RECURSIVE EachFollowedByBlankLine(_)
EachFollowedByBlankLine(ts) ==
    IF ts = <<>> THEN <<>>
    ELSE <<TestPiece(Head(ts)), Lit("\n\n")>> \o EachFollowedByBlankLine(Tail(ts))

\* The import preamble, then each test in order, each followed by a blank
\* line.
ExpectedOutput(w) ==
    <<Lit("import pytest\n"), Lit("from "), NamePiece(SourceBasename(w.source_file)),
      Lit(" import *\n\n")>> \o EachFollowedByBlankLine(w.tests)

\* A call that wrote its tests while no other call had the same file open.
WroteAlone(w) == w.pc = "returned" /\ w.tests # <<>> /\ ~w.overlapped

\* C16: a call of _write_tests with at least one test that runs while no
\* other has its file open returns <output_dir>/test_<source basename>.py
\* (output_dir defaulting to "tests"), has created that directory, and
\* leaves in the file exactly the preamble followed by its tests in order,
\* each followed by a blank line, whatever the file held before; so two
\* such calls with the same arguments leave the same content.
C16_OutputFile ==
    /\ \A p \in DOMAIN writers :
          WroteAlone(writers[p]) =>
            /\ IsSome(writers[p].ret)
            /\ Get(writers[p].ret).dir
                  = (IF IsSome(writers[p].output_dir) THEN Get(writers[p].output_dir)
                     ELSE <<"t", "e", "s", "t", "s">>)
            /\ Get(writers[p].ret).file
                  = <<"t", "e", "s", "t", "_">>
                      \o SourceBasename(writers[p].source_file) \o <<".", "p", "y">>
            /\ Get(writers[p].ret).dir \in dirs
            /\ writers[p].at_close = Some(ExpectedOutput(writers[p]))
    /\ \A p \in DOMAIN writers, q \in DOMAIN writers :
          (/\ p # q
           /\ WroteAlone(writers[p]) /\ WroteAlone(writers[q])
           /\ writers[p].tests = writers[q].tests
           /\ writers[p].source_file = writers[q].source_file
           /\ writers[p].output_dir = writers[q].output_dir)
            => /\ writers[p].at_close = writers[q].at_close
               /\ ReadFile(fs, Get(writers[p].ret)) = writers[p].at_close

\* C16 witness: two calls with the same arguments (two tests of d/m.py,
\* default directory) ran one after the other.
C16_Witness ==
    /\ writers # <<>>
    /\ WroteAlone(writers[1]) /\ WroteAlone(writers[2])
    /\ writers[1].tests = <<TestF, TestG>>
    /\ writers[2].tests = <<TestF, TestG>>
    /\ writers[1].source_file = writers[2].source_file
    /\ Get(writers[1].ret).file = <<"t", "e", "s", "t", "_", "m", ".", "p", "y">>

\* C16, other cases: a call with one test ran after one with two tests had
\* written the same file; a call was given an output directory.
C16_WitnessOverwrite ==
    /\ writers # <<>>
    /\ WroteAlone(writers[1]) /\ WroteAlone(writers[2])
    /\ writers[1].ret = writers[2].ret
    /\ Len(Get(writers[1].at_close)) > Len(Get(writers[2].at_close))
    /\ ReadFile(fs, Get(writers[2].ret)) = writers[2].at_close
C16_WitnessOutputDir ==
    /\ writers # <<>>
    /\ WroteAlone(writers[1])
    /\ writers[1].output_dir = Some(<<"o">>)

\* Both calls have returned after writing tests.
BothWrote ==
    /\ writers # <<>>
    /\ \A p \in Writers : writers[p].pc = "returned" /\ writers[p].tests # <<>>

\* C18 (as claimed): once two parallel invocations have finished, a file
\* they both resolved to holds the complete output of exactly one of them
\* (never a truncated or interleaved mixture), and a file only one of them
\* resolved to holds that one's complete output.
C18_LastWriterWins ==
    BothWrote =>
        IF writers[1].ret = writers[2].ret
        THEN ReadFile(fs, Get(writers[1].ret))
                \in {Some(ExpectedOutput(writers[1])), Some(ExpectedOutput(writers[2]))}
        ELSE \A p \in Writers :
                ReadFile(fs, Get(writers[p].ret)) = Some(ExpectedOutput(writers[p]))

\* update has returned.
UpdateReturned == upc = "returned" /\ IsSome(update_result)

\* What the i-th changed file gave: nothing if the loop passed over it,
\* else what generate returned for it.
TestsOfFile(i) ==
    IF processed[i].exists THEN Get(processed[i].gen_result).tests ELSE <<>>
ErrorsOfFile(i) ==
    IF processed[i].exists THEN Get(processed[i].gen_result).errors ELSE <<>>

\* C17: update returns a result, whatever the files gave; by then its loop
\* has handled every changed file in order, and generate has returned a
\* result for every one that existed, a failed one carrying its error and no
\* test; the returned tests are the per-file tests concatenated in order,
\* the returned errors the per-file errors concatenated in order, and
\* success is true exactly when no file gave an error.
C17_BatchGoesOn ==
    UpdateReturned =>
        LET r == Get(update_result)
            n == Len(changed_files)
        IN /\ Len(processed) = n
           /\ \A i \in 1..n :
                /\ processed[i].path = changed_files[i]
                /\ processed[i].exists =>
                    /\ IsSome(processed[i].gen_result)
                    /\ ~Get(processed[i].gen_result).success =>
                        /\ Len(ErrorsOfFile(i)) = 1
                        /\ TestsOfFile(i) = <<>>
           /\ r.tests = Concat([i \in 1..n |-> TestsOfFile(i)])
           /\ r.errors = Concat([i \in 1..n |-> ErrorsOfFile(i)])
           /\ r.success <=> \A i \in 1..n : ErrorsOfFile(i) = <<>>

\* A batch whose first file failed and whose second file gave a test.
C17_Witness ==
    /\ UpdateReturned
    /\ Len(processed) = 2
    /\ processed[1].exists /\ ~Get(processed[1].gen_result).success
    /\ processed[2].exists /\ Get(processed[2].gen_result).tests # <<>>
    /\ Get(update_result).tests # <<>>
    /\ ~Get(update_result).success

\* A batch without any failure, and one with a file that did not exist.
C17_WitnessSuccess ==
    /\ UpdateReturned
    /\ Len(processed) = 2
    /\ Get(update_result).success
    /\ Len(Get(update_result).tests) = 2
C17_WitnessSkipped ==
    /\ UpdateReturned
    /\ Len(processed) = 2
    /\ ~processed[1].exists
    /\ Get(update_result).tests # <<>>

\* A call of a collaborator tool is over, by a return or by an exception,
\* after an exception arose somewhere inside it.
CallOverAfterFault(fn) ==
    /\ ext.fn = fn
    /\ ext.at \in {"returned", "raised"}
    /\ ext.faults # <<>>

\* C19 (as claimed): whenever an exception arises anywhere in
\* generate_test_code_llm (loading the agent class, constructing the agent,
\* the chat call, the clean-up of the response), the call returns the
\* output of generate_test_code for the same signature and raises nothing.
C19_HookFailsClosed ==
    CallOverAfterFault("generate_test_code_llm") =>
        /\ ext.at = "returned"
        /\ IsNone(ext.raised)
        /\ ext.ret = Some(TextOfTest(generate_test_code(Get(ext.function_info))))

\* C20 (as claimed): whenever testagent is not installed, or an exception
\* arises while the judge is constructed or while it judges,
\* validate_test_quality returns passed = true with the default score and
\* raises nothing.
C20_QualityNeutralDefault ==
    CallOverAfterFault("validate_test_quality") =>
        /\ ext.at = "returned"
        /\ IsNone(ext.raised)
        /\ Get(ext.ret).passed
        /\ Get(ext.ret).score = 5

Separator == <<":", ":">>

\* The text has "::" at position i.
SeparatorAt(text, i) ==
    i >= 1 /\ i + 1 <= Len(text) /\ text[i] = ":" /\ text[i + 1] = ":"
HasSeparator(text) == \E i \in 1..Len(text) : SeparatorAt(text, i)

\* generate was called and _parse_target has returned.
TargetParsed == IsSome(arg_target) /\ pc # "Idle"

\* The command line gave a non-empty NAME.
CliFunctionGiven ==
    IsSome(cli_args) /\ IsSome(Get(cli_args).function)
        /\ Get(Get(cli_args).function) # <<>>

\* C21: a target without "::" gives (target, None); any other gives
\* (path, unit) with path + "::" + unit = target, the "::" after path being
\* the first one of the target (so path holds none).  The command line with
\* --function NAME hands TARGET + "::" + NAME to generate, which gives back
\* (TARGET, NAME) whenever TARGET holds no "::" and does not end in ":".
C21_TargetParsing ==
    TargetParsed =>
        LET t == Get(arg_target) IN
        /\ ~HasSeparator(t) => file_path = t /\ function_name = None
        /\ HasSeparator(t) =>
            /\ IsSome(function_name)
            /\ file_path \o Separator \o Get(function_name) = t
            /\ \A i \in 1..Len(file_path) : ~SeparatorAt(t, i)
            /\ ~HasSeparator(file_path)
        /\ IsSome(cli_args) =>
            LET c == Get(cli_args) IN
            /\ CliFunctionGiven => t = c.target \o Separator \o Get(c.function)
            /\ ~CliFunctionGiven => t = c.target
            /\ output_dir = c.output
            /\ ( /\ CliFunctionGiven
                 /\ ~HasSeparator(c.target)
                 /\ (c.target = <<>> \/ c.target[Len(c.target)] # ":") )
               => file_path = c.target /\ function_name = c.function

\* A target with more than one "::" has been parsed.
C21_Witness ==
    /\ TargetParsed
    /\ \E i \in 1..Len(Get(arg_target)), j \in 1..Len(Get(arg_target)) :
        j >= i + 2 /\ SeparatorAt(Get(arg_target), i) /\ SeparatorAt(Get(arg_target), j)
    /\ IsSome(function_name) /\ HasSeparator(Get(function_name))

\* The command line gave a function name; it gave none.
C21_WitnessCli == TargetParsed /\ CliFunctionGiven /\ function_name = Get(cli_args).function
C21_WitnessNoSeparator == TargetParsed /\ Get(arg_target) # <<>> /\ function_name = None

----------------------------------------------------------------------------
\* Vocabulary of C22: the part of Python's grammar the rendered text uses.

\* The pieces of a line before its comment, without the spaces before it.
BeforeComment(pieces) ==
    LET hashes == {i \in 1..Len(pieces) : pieces[i] = Lit("# ")}
        code == IF hashes = {} THEN pieces ELSE SubSeq(pieces, 1, Min(hashes) - 1)
    IN IF code # <<>> /\ code[Len(code)] = Lit("  ")
       THEN SubSeq(code, 1, Len(code) - 1) ELSE code

\* A line the parser skips: empty, spaces only, or a comment.
Skipped(line) == BeforeComment(line.pieces) = <<>>

\* Texts that are expressions: what ast.unparse gives for a default, and the
\* sample literals.
ExpressionTexts ==
    {"None", "0", "False", "''", "'World'", "1000",
     "1", "1.0", "\"test\"", "True", "[]", "{}", "result is not None"}

IsName(piece) == piece.k = "name" /\ piece.n # <<>>
IsIdentifier(piece) == piece.k = "lit" /\ piece.s \in Range(ParamNames) \cup {"result"}
IsExpressionPiece(piece) == piece.k = "lit" /\ piece.s \in ExpressionTexts

\* Nothing, or identifiers separated by ", ".
IsArgumentList(pieces) ==
    /\ pieces # <<>> => Len(pieces) % 2 = 1
    /\ \A i \in 1..Len(pieces) :
        IF i % 2 = 1 THEN IsIdentifier(pieces[i]) ELSE pieces[i] = Lit(", ")

\* def NAME():
IsDefHeader(line) ==
    LET c == BeforeComment(line.pieces)
    IN Len(c) = 5 /\ c[1] = Lit("def ") /\ IsName(c[2])
        /\ c[3] = Lit("(") /\ c[4] = Lit(")") /\ c[5] = Lit(":")

\* pass | assert EXPR | NAME = EXPR | NAME = NAME(ARGS) | a string literal
IsSimpleStatement(line) ==
    LET c == BeforeComment(line.pieces)
    IN \/ c = <<Lit("pass")>>
       \/ Len(c) = 2 /\ c[1] = Lit("assert ") /\ IsExpressionPiece(c[2])
       \/ Len(c) = 3 /\ IsIdentifier(c[1]) /\ c[2] = Lit(" = ") /\ IsExpressionPiece(c[3])
       \/ /\ Len(c) >= 5
          /\ IsIdentifier(c[1]) /\ c[2] = Lit(" = ") /\ IsName(c[3]) /\ c[4] = Lit("(")
          /\ c[Len(c)] = Lit(")")
          /\ IsArgumentList(SubSeq(c, 5, Len(c) - 1))
       \/ /\ Len(c) >= 2 /\ c[1] = Lit("\"\"\"") /\ c[Len(c)] = Lit("\"\"\"")
          /\ \A i \in 2..(Len(c) - 1) : c[i] # Lit("\"\"\"")

\* The text is a sequence of function definitions: each one a header in
\* column 0 followed by at least one simple statement, all indented by four.
ParsesAsPython(lines) ==
    LET code == SelectSeq(lines, LAMBDA l : ~Skipped(l))
    IN /\ code # <<>>
       /\ \A i \in 1..Len(code) :
            IF code[i].indent = 0
            THEN /\ IsDefHeader(code[i])
                 /\ i < Len(code)
                 /\ code[i + 1].indent = 4
            ELSE /\ code[i].indent = 4
                 /\ i > 1
                 /\ IsSimpleStatement(code[i])

\* The lines of the function definition whose header names fname: the
\* header and what follows up to the next line in column 0 that is not
\* skipped.
DefinitionOf(lines, fname) ==
    LET code == SelectSeq(lines, LAMBDA l : ~Skipped(l))
        at == {i \in 1..Len(code) : code[i] = DefLine(fname)}
        next == {j \in 1..Len(code) : j > Min(at) /\ code[j].indent = 0}
    IN IF at = {} THEN <<>>
       ELSE SubSeq(code, Min(at), IF next = {} THEN Len(code) ELSE Min(next) - 1)

\* C22: the text rendered for an analyzed signature parses: it is one or
\* two function definitions, test_<name>_basic and, if the signature has a
\* typed argument, test_<name>_edge_cases, each with a header and a body of
\* at least one statement; without arguments the Arrange block is the
\* statement `pass`.
C22_RenderedTextParses ==
    pc = "RenderedTool" =>
        LET t == tests[1]
            lines == TestLines(t)
        IN /\ ParsesAsPython(lines)
           /\ Len(DefinitionOf(lines, t.basic.fname)) >= 2
           /\ RenderedSignature.args = <<>> =>
                \E i \in 1..Len(lines) :
                    lines[i].indent = 4
                    /\ BeforeComment(lines[i].pieces) = <<Lit("pass")>>
           /\ IsSome(t.edge) <=> RenderedSignature.arg_types # <<>>
           /\ IsSome(t.edge) => Len(DefinitionOf(lines, Get(t.edge).fname)) >= 2

\* C22 witnesses: a signature without parameters; one with a typed
\* parameter (edge-case function rendered); one with a default and no type.
C22_Witness ==
    /\ pc = "RenderedTool"
    /\ RenderedSignature.arg_types # <<>>
    /\ IsSome(tests[1].edge)
    /\ Len(TestLines(tests[1])) > Len(BasicTestLines(tests[1].name, tests[1].basic))
C22_WitnessNoParameters ==
    pc = "RenderedTool" /\ RenderedSignature.args = <<>> /\ IsNone(tests[1].edge)
C22_WitnessDefaultUntyped ==
    /\ pc = "RenderedTool"
    /\ RenderedSignature.defaults # <<>>
    /\ RenderedSignature.arg_types = <<>>

----------------------------------------------------------------------------
\* The defaults map of the analyzer (states of ToolSpec).

\* The keys of a dict kept as a sequence of entries.
Keys(d) == {d[i].k : i \in 1..Len(d)}

\* C23 (as claimed): for every function of the analyzed file, a recorded
\* parameter is a key of the recorded defaults map exactly when it was
\* declared with a default, and the map then gives that parameter's own
\* default expression.
C23_DefaultsAligned ==
    pc = "Analyzed" =>
        \A i \in 1..Len(Get(parsed).functions) :
            LET node == AllFunctionDefs(Get(ast_tree))[i]
                info == Get(parsed).functions[i]
            IN \A a \in Range(info.args) :
                \A j \in PositionsOf(node, a) :
                    /\ a \in Keys(info.defaults) <=> IsSome(DeclaredDefault(node, j))
                    /\ IsSome(DeclaredDefault(node, j)) =>
                        DictGet(info.defaults, a)
                            = Some(Unparse(Get(DeclaredDefault(node, j))))

----------------------------------------------------------------------------
\* The names of the rendered test functions (states of Spec).

\* The names of the functions a rendered test defines.
NamesOfTest(t) ==
    <<t.basic.fname>> \o (IF IsSome(t.edge) THEN <<Get(t.edge).fname>> ELSE <<>>)

\* The names defined by the tests of a result, in the order of its text.
NamesOfTests(ts) == Concat([i \in 1..Len(ts) |-> NamesOfTest(ts[i])])

\* C24 (as claimed): the test functions of the tests one invocation of
\* generate returns have pairwise distinct names.
C24_DistinctTestNames ==
    (IsSome(result) /\ Get(result).success) =>
        LET names == NamesOfTests(Get(result).tests)
        IN \A i \in 1..Len(names), j \in 1..Len(names) :
            i # j => names[i] # names[j]

----------------------------------------------------------------------------
\* The validated text and the written text (states of Spec).

\* The invocation has validated its tests and written them.
ValidatedAndWritten ==
    /\ pc = "Done"
    /\ caller = "pipeline"
    /\ IsSome(validation)
    /\ IsSome(Get(result).test_file)

\* C25 (as claimed): the text handed to the sandbox is the content of the
\* written file.
C25_ValidatedTextIsWrittenText ==
    ValidatedAndWritten =>
        ReadFile(fs, Get(Get(result).test_file)) = Some(test_code)

----------------------------------------------------------------------------
\* The output files of a batch (states of BatchSpec).

\* The i-th changed file was processed with success and reported a path.
ReportedPath(i) ==
    /\ processed[i].exists
    /\ Get(processed[i].gen_result).success
    /\ IsSome(Get(processed[i].gen_result).test_file)

\* C26 (as claimed): when update has returned, the file at the path
\* reported for a changed file still holds the tests generated for that
\* file.
C26_OwnOutputFile ==
    UpdateReturned =>
        \A i \in 1..Len(processed) :
            ReportedPath(i) =>
                LET r == Get(processed[i].gen_result)
                    content == ReadFile(fs, Get(r.test_file))
                IN IsSome(content) /\ TestsOf(Get(content)) = r.tests

====
